---- MODULE Spec2Model ----
(***************************************************************************)
(* Verification model of the query execution engine of the driver:         *)
(*   - transport/retry_policy.rs : RetryPolicy, DefaultRetryPolicy,        *)
(*                                 FallthroughRetryPolicy                  *)
(*   - transport/session.rs      : Session::run_query (single-page runner) *)
(*   - transport/iterator.rs     : RowIterator and its paging worker       *)
(* Three specifications share the module: SpecPolicy drives one retry      *)
(* policy instance, SpecRun one call of run_query, SpecPaging one paging   *)
(* iterator (worker task, channel, consumer).                              *)
(***************************************************************************)
EXTENDS Integers, Sequences, FiniteSets, TLC

\* ------------------------------------------------------------------ bounds
\* number of decisions asked of one policy instance in SpecPolicy
MaxDecisions == 4

\* longest query plan the load balancer yields
MaxPlan == 3

\* requests one run_query call may send before the model stops following it
MaxRequests == 3

\* pages of the result set a paging query reads
MaxPages == 2

\* page requests one paging worker may send before the model stops following it
MaxPageRequests == 3

\* retry decisions one call on the Session asks for
MaxCallDecisions == 2

\* working connections of the cluster
MaxConnections == 3

\* characters of a statement text
MaxTextLen == 5

\* bound values of a prepared statement
MaxValues == 2

\* partition-key indexes of a prepared statement
MaxPkIndexes == 2

\* snapshots the cluster publishes while a query runs
MaxRefreshes == 2

\* stream ids of a connection
MaxStreamIds == 2

\* requests sent on a connection
MaxStreamRequests == 3

\* columns and rows of a Rows body, bytes of a prepared id
MaxCols == 2

MaxRows == 2

MaxIdLen == 2

\* bytes kept of a truncated body
MaxPrefix == 6

\* -------------------------------------------------------------- QueryError
\* transport/errors.rs: QueryError, with the DBError variants flattened into
\* kind; the fields the retry policy reads are kept, the others dropped.
NoWriteType == "-"

MkError(kind, received, required, data_present, write_type, msg) ==
    [kind |-> kind, received |-> received, required |-> required,
     data_present |-> data_present, write_type |-> write_type, msg |-> msg]

PlainError(kind) == MkError(kind, 0, 0, FALSE, NoWriteType, "")

IOError == PlainError("IOError")

BadQuery == PlainError("BadQuery")

ProtocolError(msg) == MkError("ProtocolError", 0, 0, FALSE, NoWriteType, msg)

Unavailable == PlainError("Unavailable")

ReadTimeout(received, required, data_present) ==
    MkError("ReadTimeout", received, required, data_present, NoWriteType, "")

WriteTimeout(write_type) == MkError("WriteTimeout", 0, 0, FALSE, write_type, "")

\* DBError variants that carry nothing the policy reads
PlainDBKinds ==
    {"Overloaded", "ServerError", "TruncateError", "IsBootstrapping",
     "SyntaxError", "Invalid", "Unprepared", "ReadFailure", "WriteFailure"}

WriteTypes == {"Simple", "UnloggedBatch", "BatchLog"}

ReplicaCounts == {1, 2}

\* the errors a request can fail with
QueryErrors ==
    {IOError, BadQuery, Unavailable, ProtocolError("bad frame")}
        \cup {PlainError(k) : k \in PlainDBKinds}
        \cup {ReadTimeout(rc, rq, dp) :
                rc \in ReplicaCounts, rq \in ReplicaCounts, dp \in BOOLEAN}
        \cup {WriteTimeout(wt) : wt \in WriteTypes}

\* ----------------------------------------------------------- RetryDecision
RetrySameNode == "RetrySameNode"

RetryNextNode == "RetryNextNode"

DontRetry == "DontRetry"

\* ------------------------------------------------------------ RetryPolicy
\* A boxed policy: which implementation it is, and DefaultRetryPolicy's fields.
DefaultRetryPolicy_new ==
    [impl |-> "Default", was_unavailable_retry |-> FALSE,
     was_read_timeout_retry |-> FALSE]

FallthroughRetryPolicy ==
    [impl |-> "Fallthrough", was_unavailable_retry |-> FALSE,
     was_read_timeout_retry |-> FALSE]

QueryInfo(error, is_idempotent) == [error |-> error, is_idempotent |-> is_idempotent]

Decided(decision, self) == [decision |-> decision, self |-> self]

Fallthrough_decide_should_retry_retries_io_error(self, query_info) ==
    IF query_info.is_idempotent /\ query_info.error.kind = "IOError"
    THEN Decided(RetryNextNode, self)
    ELSE Decided(DontRetry, self)

Fallthrough_decide_should_retry(self, query_info) == Decided(DontRetry, self)

on_basic_error_once(self, query_info) ==
    IF query_info.is_idempotent /\ ~self.was_unavailable_retry
    THEN Decided(RetryNextNode, [self EXCEPT !.was_unavailable_retry = TRUE])
    ELSE Decided(DontRetry, self)

\* IOError | Overloaded | ServerError | TruncateError
on_basic_error(self, query_info) ==
    IF query_info.is_idempotent
    THEN Decided(RetryNextNode, self)
    ELSE Decided(DontRetry, self)

on_unavailable_forgets_flag(self, query_info) ==
    IF ~self.was_unavailable_retry
    THEN Decided(RetryNextNode, self)
    ELSE Decided(DontRetry, self)

on_unavailable(self, query_info) ==
    IF ~self.was_unavailable_retry
    THEN Decided(RetryNextNode, [self EXCEPT !.was_unavailable_retry = TRUE])
    ELSE Decided(DontRetry, self)

on_read_timeout_forgets_flag(self, query_info) ==
    LET e == query_info.error IN
    IF ~self.was_read_timeout_retry /\ e.received >= e.required /\ e.data_present
    THEN Decided(RetrySameNode, self)
    ELSE Decided(DontRetry, self)

on_read_timeout(self, query_info) ==
    LET e == query_info.error IN
    IF ~self.was_read_timeout_retry /\ e.received >= e.required /\ e.data_present
    THEN Decided(RetrySameNode, [self EXCEPT !.was_read_timeout_retry = TRUE])
    ELSE Decided(DontRetry, self)

on_write_timeout_any_write_type(self, query_info) ==
    IF query_info.is_idempotent
    THEN Decided(RetrySameNode, self)
    ELSE Decided(DontRetry, self)

on_write_timeout(self, query_info) ==
    IF query_info.is_idempotent /\ query_info.error.write_type = "BatchLog"
    THEN Decided(RetrySameNode, self)
    ELSE Decided(DontRetry, self)

on_is_bootstrapping_if_idempotent(self, query_info) ==
    IF query_info.is_idempotent
    THEN Decided(RetryNextNode, self)
    ELSE Decided(DontRetry, self)

on_is_bootstrapping(self, query_info) == Decided(RetryNextNode, self)

on_other_error_resets_flags(self, query_info) ==
    Decided(DontRetry, [self EXCEPT !.was_unavailable_retry = FALSE,
                                    !.was_read_timeout_retry = FALSE])

on_other_error_next_node(self, query_info) ==
    IF query_info.error.kind = "Unprepared"
    THEN Decided(RetryNextNode, self)
    ELSE Decided(DontRetry, self)

\* `_ => RetryDecision::DontRetry`
on_other_error(self, query_info) == Decided(DontRetry, self)

BasicErrorKinds == {"IOError", "Overloaded", "ServerError", "TruncateError"}

\* the match of DefaultRetryPolicy::decide_should_retry
Default_decide_should_retry(self, query_info) ==
    LET kind == query_info.error.kind IN
    CASE kind \in BasicErrorKinds -> on_basic_error(self, query_info)
      [] kind = "Unavailable" -> on_unavailable(self, query_info)
      [] kind = "ReadTimeout" -> on_read_timeout(self, query_info)
      [] kind = "WriteTimeout" -> on_write_timeout(self, query_info)
      [] kind = "IsBootstrapping" -> on_is_bootstrapping(self, query_info)
      [] OTHER -> on_other_error(self, query_info)

\* dyn RetryPolicy dispatch
decide_should_retry(self, query_info) ==
    IF self.impl = "Default"
    THEN Default_decide_should_retry(self, query_info)
    ELSE Fallthrough_decide_should_retry(self, query_info)

\* RetryPolicy::clone_boxed: a boxed copy of the policy
clone_boxed(self) == self

\* =================================================================== state
VARIABLES
    \* SpecPolicy: one policy instance and the questions put to it
    retry_policy,       \* the instance
    asked,              \* the last QueryInfo decided on ("none" before the first)
    answer,             \* the decision returned for it
    n_decisions,        \* number of decisions taken
    n_unavailable,      \* number of Unavailable errors decided on
    n_rt_granted,       \* number of ReadTimeout errors answered RetrySameNode
    n_wt_granted        \* number of WriteTimeout errors answered RetrySameNode

polVars == <<retry_policy, asked, answer, n_decisions, n_unavailable, n_rt_granted,
             n_wt_granted>>

VARIABLES
    \* SpecRun: one call of Session::run_query
    rq_pc,                  \* "start", "choose_connection", "do_query", "done"
    query_plan,             \* the nodes load_balancer.plan yields, in order
    plan_pos,               \* position in query_plan of the loop's current node
    rq_retry_policy,        \* the retry_policy argument (owned by the call)
    query_is_idempotent,
    last_error,
    rq_result,              \* "pending", or what run_query returned
    rq_trace,               \* every step taken: connection acquisitions and requests
    metrics                 \* total / failed nonpaged query counters

runVars == <<rq_pc, query_plan, plan_pos, rq_retry_policy, query_is_idempotent,
             last_error, rq_result, rq_trace, metrics>>

VARIABLES
    \* SpecPaging: one RowIterator, its worker task and the channel between them
    result_pages,           \* the server's result set: a sequence of pages of rows
    pw_pc,                  \* worker: "start", "get_connection", "issue",
                            \*   "await_response", "send", "done"
    pw_plan,                \* the worker's query plan
    pw_pos,                 \* position in pw_plan of the current node
    pw_retry_policy,        \* WorkerHelper.retry_policy
    retry_policy_untouched, \* WorkerHelper.retry_policy_untouched
    query_idempotence,      \* WorkerHelper.query_idempotence
    paging_state,           \* WorkerHelper.paging_state (NoPagingState = None)
    pw_last_error,          \* last_error of work
    pw_rows,                \* the Rows the worker is sending into the channel
    chan,                   \* messages buffered in the mpsc channel
    sender_alive,           \* the Sender exists (the worker has not returned)
    rx,                     \* RowIterator: "open", "ended" (yielded None), "dropped"
    current_page,           \* RowIterator.current_page.rows
    current_row_idx,        \* RowIterator.current_row_idx
    yielded,                \* the items poll_next has returned, in order
    n_page_requests,        \* number of page requests the worker has sent
    last_request,           \* the last page request sent, with the state it was sent in
    pages_fetched,          \* Rows responses the worker has received
    pages_consumed,         \* pages the RowIterator has taken out of the channel
    dont_retry_seen,        \* the policy has answered DontRetry
    send_failed,            \* a send on the closed channel has failed
    any_failure,            \* a connection or request failed, or the plan was empty
    last_outcome            \* how the last answered page request ended

workerVars == <<pw_pc, pw_plan, pw_pos, pw_retry_policy, retry_policy_untouched,
                query_idempotence, paging_state, pw_last_error, pw_rows>>

channelVars == <<chan, sender_alive>>

iteratorVars == <<rx, current_page, current_row_idx, yielded>>

historyVars == <<n_page_requests, last_request, pages_fetched, pages_consumed, dont_retry_seen,
                 send_failed, any_failure, last_outcome>>

pageVars == <<result_pages, workerVars, channelVars, iteratorVars, historyVars>>

VARIABLES
    \* SpecSession: calls of query, execute, batch, query_iter, execute_iter on
    \* one Session
    policy_heap,            \* the retry-policy objects: Session.retry_policy and
                            \*   the Box each call decides with
    calls                   \* per call: position, entry point, statement, the Box
                            \*   it decides with, and the decisions it got

sessVars == <<policy_heap, calls>>

VARIABLES
    \* SpecPrepare: one call of Session::prepare and executes after it
    prepare_pc,             \* "start", "join_all", "done"
    connections,            \* number of connections get_working_connections returned
    results,                \* results of join_all, in connection order
    answered,               \* the connections whose PREPARE has been answered
    prepare_result,         \* what prepare returned
    last_execute            \* the last EXECUTE of the statement: connection, answer

prepVars == <<prepare_pc, connections, results, answered, prepare_result, last_execute>>

VARIABLES
    \* SpecQueryText: one call of Session::query, up to where it routes the text
    query_text,             \* the statement text, a sequence of ASCII characters
    query_route,            \* "called", "use_keyspace", "run_query"
    keyspace_name,          \* the name handed to use_keyspace
    n_run_query             \* calls of run_query made for the text

textVars == <<query_text, query_route, keyspace_name, n_run_query>>

VARIABLES
    \* SpecWriteType: WriteType::from applied to two strings
    write_type_strs,        \* the two strings
    write_types             \* what WriteType::from gave for each, once applied

wtVars == <<write_type_strs, write_types>>

VARIABLES
    \* SpecPartitionKey: PreparedStatement::compute_partition_key on bound values
    pk_indexes,             \* PreparedMetadata.pk_indexes, as the server sent them
    bound_values,           \* the SerializedValues: each None or Some(bytes)
    pk_pc,                  \* "start", "done"
    partition_key           \* what compute_partition_key returned

pkVars == <<pk_indexes, bound_values, pk_pc, partition_key>>

VARIABLES
    \* SpecKeyspace: calls of Session::use_keyspace on a cluster of connections
    used_keyspace,          \* per connection: the keyspace it uses
    last_use_ok,            \* per connection: the call whose USE it answered Ok last
    use_calls               \* per call: position, arguments, the connections that
                            \*   answered its USE, those that answered Ok, result

ksVars == <<used_keyspace, last_use_ok, use_calls>>

VARIABLES
    \* SpecValues: one call of query, query_iter, execute or execute_iter
    entry_pc,               \* "idle", "use_keyspace", "run_query", "choose",
                            \*   "do_query", "done"
    entry_call,             \* the entry point and what it was called with
    entry_plan,             \* None, or Some(the plan run_query computed)
    entry_pos,              \* position in the plan
    entry_policy,           \* the retry policy of the call
    entry_last_error,       \* last_error of run_query
    n_acquired,             \* connections choose_connection handed out
    n_sent,                 \* requests put on a connection
    use_sent,               \* USE sent to the connections
    entry_result            \* what the call returned

valVars == <<entry_pc, entry_call, entry_plan, entry_pos, entry_policy,
             entry_last_error, n_acquired, n_sent, use_sent, entry_result>>

VARIABLES
    \* SpecTopology: one query or iterator while the cluster data is refreshed
    cluster_data,           \* the snapshot the cluster has published
    n_refreshes,            \* snapshots published since the start
    topo_pc,                \* "idle", "constructed", "running", "done"
    topo_kind,              \* "run_query" or "worker"
    held_cluster_data,      \* the Arc<ClusterData> the query got from get_data()
    topo_plan,              \* the query plan
    topo_pos,               \* position of the loop over the plan
    topo_tried              \* the nodes the loop has gone through, in order

topoVars == <<cluster_data, n_refreshes, topo_pc, topo_kind, held_cluster_data,
              topo_plan, topo_pos, topo_tried>>

VARIABLES
    \* SpecStreams: the stream ids of one connection
    conn_open,              \* the connection is open
    allocated_ids,          \* the stream ids taken from the free pool
    waiters,                \* the map stream id -> request waiting for a response
    stream_requests,        \* per request: its state and its stream id
    on_wire                 \* stream ids the server still answers

strVars == <<conn_open, allocated_ids, waiters, stream_requests, on_wire>>

VARIABLES
    \* SpecDecode: one RESULT body from the wire to the caller
    body_buf,               \* the bytes of the body
    sent_body,              \* what the body was built from
    decode_pc,              \* "received", "decoded", "surfaced"
    decoded,                \* what deserialize gave
    surfaced                \* what the caller gets

decVars == <<body_buf, sent_body, decode_pc, decoded, surfaced>>

VARIABLES
    \* SpecToken: one call of calculate_token, the bound values given by length
    tk_indexes,             \* metadata.pk_indexes of the statement
    tk_value_lens,          \* per bound value: None (NULL) or Some(length in bytes)
    tk_pc,                  \* "start", "done"
    tk_key,                 \* what compute_partition_key returned (the key's length)
    tk_token                \* what calculate_token returned

tkVars == <<tk_indexes, tk_value_lens, tk_pc, tk_key, tk_token>>

extVars == <<sessVars, prepVars, textVars, wtVars, pkVars, ksVars, valVars, topoVars, strVars, decVars, tkVars>>

nonSessVars == <<polVars, runVars, pageVars, prepVars, textVars, wtVars, pkVars, ksVars, valVars, topoVars, strVars, decVars, tkVars>>

nonPrepVars == <<polVars, runVars, pageVars, sessVars, textVars, wtVars, pkVars, ksVars, valVars, topoVars, strVars, decVars, tkVars>>

nonTextVars == <<polVars, runVars, pageVars, sessVars, prepVars, wtVars, pkVars, ksVars, valVars, topoVars, strVars, decVars, tkVars>>

nonWtVars == <<polVars, runVars, pageVars, sessVars, prepVars, textVars, pkVars, ksVars, valVars, topoVars, strVars, decVars, tkVars>>

nonPkVars == <<polVars, runVars, pageVars, sessVars, prepVars, textVars, wtVars, ksVars, valVars, topoVars, strVars, decVars, tkVars>>

nonKsVars == <<polVars, runVars, pageVars, sessVars, prepVars, textVars, wtVars, pkVars, valVars, topoVars, strVars, decVars, tkVars>>

nonValVars == <<polVars, runVars, pageVars, sessVars, prepVars, textVars, wtVars, pkVars, ksVars, topoVars, strVars, decVars, tkVars>>

nonTopoVars == <<polVars, runVars, pageVars, sessVars, prepVars, textVars, wtVars, pkVars, ksVars, valVars, strVars, decVars, tkVars>>

nonStrVars == <<polVars, runVars, pageVars, sessVars, prepVars, textVars, wtVars, pkVars, ksVars, valVars, topoVars, decVars, tkVars>>

nonDecVars == <<polVars, runVars, pageVars, sessVars, prepVars, textVars, wtVars, pkVars, ksVars, valVars, topoVars, strVars, tkVars>>

nonTkVars == <<polVars, runVars, pageVars, sessVars, prepVars, textVars, wtVars, pkVars, ksVars, valVars, topoVars, strVars, decVars>>

vars == <<polVars, runVars, pageVars, extVars>>

\* ------------------------------------------------------------- SpecPolicy
PolicyStart ==
    /\ retry_policy = DefaultRetryPolicy_new
    /\ asked = "none"
    /\ answer = "none"
    /\ n_decisions = 0
    /\ n_unavailable = 0
    /\ n_rt_granted = 0
    /\ n_wt_granted = 0

\* one call of retry_policy.decide_should_retry(query_info)
Decide(error, is_idempotent) ==
    /\ n_decisions < MaxDecisions
    /\ LET d == decide_should_retry(retry_policy, QueryInfo(error, is_idempotent)) IN
        /\ retry_policy' = d.self
        /\ answer' = d.decision
        /\ n_rt_granted' =
              IF error.kind = "ReadTimeout" /\ d.decision = RetrySameNode
              THEN n_rt_granted + 1 ELSE n_rt_granted
        /\ n_wt_granted' =
              IF error.kind = "WriteTimeout" /\ d.decision = RetrySameNode
              THEN n_wt_granted + 1 ELSE n_wt_granted
    /\ asked' = QueryInfo(error, is_idempotent)
    /\ n_decisions' = n_decisions + 1
    /\ n_unavailable' = IF error.kind = "Unavailable" THEN n_unavailable + 1 ELSE n_unavailable
    /\ UNCHANGED <<runVars, pageVars, extVars>>

PolicyNext == \E error \in QueryErrors, is_idempotent \in BOOLEAN : Decide(error, is_idempotent)

\* ---------------------------------------------------------------- SpecRun
EmptyPlanError == ProtocolError("Empty query plan - driver bug!")

Ok(value) == [ok |-> TRUE, value |-> value]

Err(e) == [ok |-> FALSE, err |-> e]

Nodes == 1..MaxPlan

\* query plans: the first n nodes in round-robin order, from any starting node
Rotation(n, r) == [i \in 1..n |-> ((i - 1 + r) % n) + 1]

QueryPlans == {<<>>} \cup {Rotation(n, r) : n \in 1..MaxPlan, r \in 0..(MaxPlan - 1)}

\* errors of Node::random_connection / connection_for_token
ConnectionErrors == {IOError}

RetryPolicies == {DefaultRetryPolicy_new, FallthroughRetryPolicy}

RunStart(plan, idempotent, policy) ==
    /\ rq_pc = "start"
    /\ query_plan = plan
    /\ plan_pos = 0
    /\ rq_retry_policy = policy
    /\ query_is_idempotent = idempotent
    /\ last_error = EmptyPlanError
    /\ rq_result = "pending"
    /\ rq_trace = <<>>
    /\ metrics = [total_nonpaged |-> 0, failed_nonpaged |-> 0]

RunIdle == RunStart(<<>>, FALSE, DefaultRetryPolicy_new)

ConnStep(pos, res) == [step |-> "conn", pos |-> pos, node |-> query_plan[pos], res |-> res,
                       decision |-> "-"]

QueryStep(pos, res, decision) ==
    [step |-> "query", pos |-> pos, node |-> query_plan[pos], res |-> res,
     decision |-> decision]

NRequests(trace) == Cardinality({i \in 1..Len(trace) : trace[i].step = "query"})

NextNodeInPlan_stale_error(pos, error) ==
    IF pos < Len(query_plan)
    THEN /\ plan_pos' = pos + 1
         /\ rq_pc' = "choose_connection"
         /\ rq_result' = rq_result
    ELSE /\ plan_pos' = pos
         /\ rq_pc' = "done"
         /\ rq_result' = Err(EmptyPlanError)

\* `for node in query_plan`: take the node after position pos and call
\* choose_connection on it, or leave the loop and return Err(last_error)
NextNodeInPlan(pos, error) ==
    IF pos < Len(query_plan)
    THEN /\ plan_pos' = pos + 1
         /\ rq_pc' = "choose_connection"
         /\ rq_result' = rq_result
    ELSE /\ plan_pos' = pos
         /\ rq_pc' = "done"
         /\ rq_result' = Err(error)

\* run_query up to its first await: snapshot, plan, last_error, first node
RunQueryBegin ==
    /\ rq_pc = "start"
    /\ NextNodeInPlan(0, last_error)
    /\ UNCHANGED <<query_plan, rq_retry_policy, query_is_idempotent, last_error,
                   rq_trace, metrics>>
    /\ UNCHANGED <<polVars, pageVars, extVars>>

connection_error_asks_policy(error) ==
    LET d == decide_should_retry(rq_retry_policy, QueryInfo(error, query_is_idempotent)) IN
    /\ last_error' = error
    /\ rq_retry_policy' = d.self
    /\ IF d.decision = DontRetry
       THEN rq_pc' = "done" /\ rq_result' = Err(error) /\ UNCHANGED plan_pos
       ELSE NextNodeInPlan(plan_pos, error)
    /\ UNCHANGED metrics

\* the Err(e) arm of `match choose_connection(node.clone()).await`
connection_error(error) ==
    /\ last_error' = error
    /\ NextNodeInPlan(plan_pos, error)
    /\ UNCHANGED <<metrics, rq_retry_policy>>

\* choose_connection(node).await completes with res
ChooseConnectionDone(res) ==
    /\ rq_pc = "choose_connection"
    /\ NRequests(rq_trace) < MaxRequests
    /\ rq_trace' = Append(rq_trace, ConnStep(plan_pos, res))
    /\ IF res.ok
       THEN \* the request is sent on the connection
            /\ metrics' = [metrics EXCEPT !.total_nonpaged = @ + 1]
            /\ rq_pc' = "do_query"
            /\ UNCHANGED <<plan_pos, last_error, rq_result, rq_retry_policy>>
       ELSE connection_error(res.err)
    /\ UNCHANGED <<query_plan, query_is_idempotent>>
    /\ UNCHANGED <<polVars, pageVars, extVars>>

ActOnDecision_stays_on_node(decision, error) ==
    CASE decision \in {RetrySameNode, RetryNextNode} ->
            /\ rq_pc' = "choose_connection"
            /\ UNCHANGED <<plan_pos, rq_result>>
      [] OTHER ->
            /\ rq_pc' = "done"
            /\ rq_result' = Err(error)
            /\ UNCHANGED plan_pos

ActOnDecision_restarts_plan(decision, error) ==
    CASE decision = RetrySameNode ->
            /\ rq_pc' = "choose_connection"
            /\ UNCHANGED <<plan_pos, rq_result>>
      [] decision = RetryNextNode ->
            /\ rq_pc' = "choose_connection"
            /\ plan_pos' = 1
            /\ UNCHANGED rq_result
      [] OTHER ->
            /\ rq_pc' = "done"
            /\ rq_result' = Err(error)
            /\ UNCHANGED plan_pos

\* what run_query does with the policy's decision
ActOnDecision(decision, error) ==
    CASE decision = RetrySameNode ->
            /\ rq_pc' = "choose_connection"
            /\ UNCHANGED <<plan_pos, rq_result>>
      [] decision = RetryNextNode -> NextNodeInPlan(plan_pos, error)
      [] OTHER ->
            /\ rq_pc' = "done"
            /\ rq_result' = Err(error)
            /\ UNCHANGED plan_pos

\* do_query(connection).await completes with res
DoQueryDone(res) ==
    /\ rq_pc = "do_query"
    /\ IF res.ok
       THEN /\ rq_pc' = "done"
            /\ rq_result' = res
            /\ rq_trace' = Append(rq_trace, QueryStep(plan_pos, res, "-"))
            /\ UNCHANGED <<plan_pos, last_error, rq_retry_policy, metrics>>
       ELSE LET d == decide_should_retry(rq_retry_policy,
                                         QueryInfo(res.err, query_is_idempotent)) IN
            /\ metrics' = [metrics EXCEPT !.failed_nonpaged = @ + 1]
            /\ last_error' = res.err
            /\ rq_retry_policy' = d.self
            /\ rq_trace' = Append(rq_trace, QueryStep(plan_pos, res, d.decision))
            /\ ActOnDecision(d.decision, res.err)
    /\ UNCHANGED <<query_plan, query_is_idempotent>>
    /\ UNCHANGED <<polVars, pageVars, extVars>>

RunNext ==
    \/ RunQueryBegin
    \/ \E res \in {Ok("connection")} \cup {Err(e) : e \in ConnectionErrors} :
          ChooseConnectionDone(res)
    \/ \E res \in {Ok("rows")} \cup {Err(e) : e \in QueryErrors} : DoQueryDone(res)

\* ------------------------------------------------------------- SpecPaging
\* Option<Bytes> paging state: None, or the cursor k returned with page k
NoPagingState == 0

\* mpsc::channel(1)
ChannelCapacity == 1

UnexpectedResponseError == ProtocolError("Unexpected response to next page query")

Row(page, idx) == [page |-> page, idx |-> idx]

\* what mem::take leaves in current_page.rows[idx]
DefaultRow == Row(0, 0)

PageOfRows(page, size) == [i \in 1..size |-> Row(page, i)]

\* row counts of a page: a zero-sized page, or a page of two rows
PageSizes == {0, 2}

\* result sets of 1..MaxPages pages
ResultSets ==
    UNION {{[k \in 1..n |-> PageOfRows(k, sizes[k])] :
                sizes \in [1..n -> PageSizes]} : n \in 1..MaxPages}

\* the errors a page request is answered with in SpecPaging
PageErrors == {IOError, Unavailable, ReadTimeout(2, 1, TRUE), PlainError("SyntaxError")}

\* what the server answers to a page request
PageResponses == {[kind |-> "Rows", err |-> IOError], [kind |-> "Void", err |-> IOError]}
                    \cup {[kind |-> "Error", err |-> e] : e \in PageErrors}

\* the server's Rows response to a request carrying paging state ps
ServerPage(ps) ==
    LET k == IF ps = NoPagingState THEN 1 ELSE ps + 1 IN
    [rows |-> result_pages[k],
     paging_state |-> IF k < Len(result_pages) THEN k ELSE NoPagingState]

\* last_request before the first request
NoRequest ==
    [pos |-> 0, paging_state |-> NoPagingState, receiver_alive |-> TRUE,
     fetched |-> 0, consumed |-> 0, after_dont_retry |-> FALSE,
     after_send_failure |-> FALSE, is_retry |-> FALSE,
     failed_paging_state |-> NoPagingState, returned_state |-> NoPagingState]

\* the worker's query plans: the first n nodes
PagingPlans == {Rotation(n, 0) : n \in 0..MaxPlan}

\* last_outcome: the response kind ("Rows" or the error's kind), the policy's
\* decision, the paging state returned with the last page fetched, and the
\* Unavailable answers counted since the last page fetched and before it
Outcome(kind, decision, returned_state, on_page, before_page) ==
    [kind |-> kind, decision |-> decision, returned_state |-> returned_state,
     unavailable_on_page |-> on_page, unavailable_before_page |-> before_page]

\* last_outcome before the first response
NoOutcome == Outcome("-", "-", NoPagingState, 0, 0)

PagingStart(pages, plan, idempotent, policy) ==
    /\ result_pages = pages
    /\ pw_pc = "start"
    /\ pw_plan = plan
    /\ pw_pos = 0
    /\ pw_retry_policy = clone_boxed(policy)
    /\ retry_policy_untouched = policy
    /\ query_idempotence = idempotent
    /\ paging_state = NoPagingState
    /\ pw_last_error = EmptyPlanError
    /\ pw_rows = <<>>
    /\ chan = <<>>
    /\ sender_alive = TRUE
    /\ rx = "open"
    /\ current_page = <<>>
    /\ current_row_idx = 0
    /\ yielded = <<>>
    /\ n_page_requests = 0
    /\ last_request = NoRequest
    /\ pages_fetched = 0
    /\ pages_consumed = 0
    /\ dont_retry_seen = FALSE
    /\ send_failed = FALSE
    /\ any_failure = FALSE
    /\ last_outcome = NoOutcome

PagingIdle == PagingStart(<<<<>>>>, <<>>, FALSE, DefaultRetryPolicy_new)

\* `let _ = self.sender.send(Err(last_error));` the future send returns is dropped
\* without being awaited, so nothing enters the channel
send_last_error(channel, error) == channel

WorkerNextNode_wraps_around(pos, error) ==
    IF Len(pw_plan) > 0
    THEN /\ pw_pos' = (pos % Len(pw_plan)) + 1
         /\ pw_pc' = "get_connection"
         /\ UNCHANGED channelVars
    ELSE /\ pw_pos' = pos
         /\ pw_pc' = "done"
         /\ chan' = send_last_error(chan, error)
         /\ sender_alive' = FALSE

\* `for node in query_plan` of work: take the node after position pos and ask for
\* a connection to it, or leave the loop, "send" last_error and return (which
\* drops the Sender)
WorkerNextNode(pos, error) ==
    IF pos < Len(pw_plan)
    THEN /\ pw_pos' = pos + 1
         /\ pw_pc' = "get_connection"
         /\ UNCHANGED channelVars
    ELSE /\ pw_pos' = pos
         /\ pw_pc' = "done"
         /\ chan' = send_last_error(chan, error)
         /\ sender_alive' = FALSE

\* work up to its first await
WorkBegin ==
    /\ pw_pc = "start"
    /\ pw_last_error' = EmptyPlanError
    /\ WorkerNextNode(0, EmptyPlanError)
    /\ any_failure' = (any_failure \/ pw_plan = <<>>)
    /\ UNCHANGED <<result_pages, pw_plan, pw_retry_policy, retry_policy_untouched,
                   query_idempotence, paging_state, pw_rows, iteratorVars,
                   n_page_requests, last_request, pages_fetched, pages_consumed, dont_retry_seen,
                   send_failed>>
    /\ UNCHANGED last_outcome
    /\ UNCHANGED <<polVars, runVars, extVars>>

\* node.random_connection() / connection_for_token_or_any(token) completes with res
GetConnectionDone(res) ==
    /\ pw_pc = "get_connection"
    /\ IF res.ok
       THEN /\ pw_pc' = "issue"
            /\ UNCHANGED <<pw_pos, pw_last_error, channelVars, any_failure>>
       ELSE /\ pw_last_error' = res.err
            /\ any_failure' = TRUE
            /\ WorkerNextNode(pw_pos, res.err)
    /\ UNCHANGED <<result_pages, pw_plan, pw_retry_policy, retry_policy_untouched,
                   query_idempotence, paging_state, pw_rows, iteratorVars,
                   n_page_requests, last_request, pages_fetched, pages_consumed, dont_retry_seen,
                   send_failed>>
    /\ UNCHANGED last_outcome
    /\ UNCHANGED <<polVars, runVars, extVars>>

PageRequest ==
    [pos |-> pw_pos, paging_state |-> paging_state,
     receiver_alive |-> (rx # "dropped"),
     fetched |-> pages_fetched, consumed |-> pages_consumed,
     after_dont_retry |-> dont_retry_seen, after_send_failure |-> send_failed,
     is_retry |-> last_outcome.decision \in {RetrySameNode, RetryNextNode},
     failed_paging_state |-> last_request.paging_state,
     returned_state |-> last_outcome.returned_state]

\* top of the loop of query_pages: connection.query(.., paging_state) is called
IssuePageRequest ==
    /\ pw_pc = "issue"
    /\ n_page_requests < MaxPageRequests
    /\ n_page_requests' = n_page_requests + 1
    /\ last_request' = PageRequest
    /\ pw_pc' = "await_response"
    /\ UNCHANGED <<result_pages, pw_plan, pw_pos, pw_retry_policy, retry_policy_untouched,
                   query_idempotence, paging_state, pw_last_error, pw_rows,
                   channelVars, iteratorVars, pages_fetched, pages_consumed,
                   dont_retry_seen, send_failed, any_failure>>
    /\ UNCHANGED last_outcome
    /\ UNCHANGED <<polVars, runVars, extVars>>

\* the match on the policy's decision in work
WorkerActOnDecision(decision, error) ==
    CASE decision = RetrySameNode ->
            /\ pw_pc' = "issue"
            /\ UNCHANGED <<pw_pos, channelVars>>
      [] decision = RetryNextNode -> WorkerNextNode(pw_pos, error)
      [] OTHER ->
            \* DontRetry: `break 'same_node_retries` leaves the inner loop only
            WorkerNextNode(pw_pos, error)

\* the request completes with response resp
PageResponse(resp) ==
    /\ pw_pc = "await_response"
    /\ IF resp.kind = "Rows"
       THEN LET page == ServerPage(paging_state) IN
            /\ paging_state' = page.paging_state
            /\ pw_rows' = page.rows
            /\ pages_fetched' = pages_fetched + 1
            /\ pw_pc' = "send"
            /\ last_outcome' = Outcome("Rows", "-", page.paging_state, 0,
                                       last_outcome.unavailable_before_page
                                         + last_outcome.unavailable_on_page)
            /\ UNCHANGED <<pw_pos, pw_retry_policy, pw_last_error, channelVars,
                           dont_retry_seen, any_failure>>
       ELSE LET error == IF resp.kind = "Error" THEN resp.err ELSE UnexpectedResponseError
                d == decide_should_retry(pw_retry_policy,
                                         QueryInfo(error, query_idempotence)) IN
            /\ pw_last_error' = error
            /\ any_failure' = TRUE
            /\ pw_retry_policy' = d.self
            /\ dont_retry_seen' = (dont_retry_seen \/ d.decision = DontRetry)
            /\ last_outcome' =
                  Outcome(error.kind, d.decision, last_outcome.returned_state,
                          last_outcome.unavailable_on_page
                            + (IF error.kind = "Unavailable" THEN 1 ELSE 0),
                          last_outcome.unavailable_before_page)
            /\ WorkerActOnDecision(d.decision, error)
            /\ UNCHANGED <<paging_state, pw_rows, pages_fetched>>
    /\ UNCHANGED <<result_pages, pw_plan, retry_policy_untouched, query_idempotence,
                   iteratorVars, n_page_requests, last_request, pages_consumed, send_failed>>
    /\ UNCHANGED <<polVars, runVars, extVars>>

reset_retry_policy_keeps_state(current, untouched) == current

\* `self.retry_policy = self.retry_policy_untouched.clone_boxed();`
reset_retry_policy(current, untouched) == clone_boxed(untouched)

ChannelHasRoom_unbounded == TRUE

ChannelHasRoom_for_two == Len(chan) < ChannelCapacity + 1

\* Sender::send waits for a free slot of the channel
ChannelHasRoom == Len(chan) < ChannelCapacity

\* self.sender.send(Ok(rows)).await completes: the page is buffered, or the send
\* fails because the receiver is gone; either way the policy is reset and the
\* loop goes on
SendPageDone ==
    /\ pw_pc = "send"
    /\ rx = "dropped" \/ ChannelHasRoom
    /\ IF rx = "dropped"
       THEN /\ send_failed' = TRUE
            /\ UNCHANGED chan
       ELSE /\ chan' = Append(chan, Ok(pw_rows))
            /\ UNCHANGED send_failed
    /\ pw_rows' = <<>>
    /\ pw_retry_policy' = reset_retry_policy(pw_retry_policy, retry_policy_untouched)
    /\ pw_pc' = "issue"
    /\ UNCHANGED <<result_pages, pw_plan, pw_pos, retry_policy_untouched,
                   query_idempotence, paging_state, pw_last_error, sender_alive,
                   iteratorVars, n_page_requests, last_request, pages_fetched, pages_consumed,
                   dont_retry_seen, any_failure>>
    /\ UNCHANGED last_outcome
    /\ UNCHANGED <<polVars, runVars, extVars>>

is_current_page_exhausted_before_last_row == current_row_idx + 1 >= Len(current_page)

is_current_page_exhausted == current_row_idx >= Len(current_page)

\* the tail of poll_next: yield rows[idx] of page (taking it out) if there is one
YieldRow(page, idx) ==
    IF idx < Len(page)
    THEN /\ yielded' = Append(yielded, Ok(page[idx + 1]))
         /\ current_page' = [page EXCEPT ![idx + 1] = DefaultRow]
         /\ current_row_idx' = idx + 1
    ELSE \* a zero-sized page: Pending, woken at once
         /\ current_page' = page
         /\ current_row_idx' = idx
         /\ UNCHANGED yielded

\* RowIterator::poll_next, whenever it does not return Pending with nothing changed
PollNext ==
    /\ rx = "open"
    /\ IF is_current_page_exhausted
       THEN /\ chan # <<>> \/ ~sender_alive
            /\ IF chan # <<>>
               THEN /\ chan' = Tail(chan)
                    /\ IF Head(chan).ok
                       THEN /\ YieldRow(Head(chan).value, 0)
                            /\ pages_consumed' = pages_consumed + 1
                       ELSE /\ yielded' = Append(yielded, Head(chan))
                            /\ UNCHANGED <<current_page, current_row_idx, pages_consumed>>
                    /\ UNCHANGED rx
               ELSE /\ rx' = "ended"
                    /\ UNCHANGED <<chan, current_page, current_row_idx, yielded,
                                   pages_consumed>>
       ELSE /\ YieldRow(current_page, current_row_idx)
            /\ UNCHANGED <<rx, chan, pages_consumed>>
    /\ UNCHANGED <<result_pages, workerVars, sender_alive, n_page_requests, last_request, pages_fetched,
                   dont_retry_seen, send_failed, any_failure>>
    /\ UNCHANGED last_outcome
    /\ UNCHANGED <<polVars, runVars, extVars>>

\* the consumer drops the RowIterator: the Receiver closes the channel and the
\* buffered messages are discarded
DropIterator ==
    /\ rx = "open"
    /\ rx' = "dropped"
    /\ chan' = <<>>
    /\ UNCHANGED <<result_pages, workerVars, sender_alive, current_page, current_row_idx,
                   yielded, historyVars>>
    /\ UNCHANGED <<polVars, runVars, extVars>>

PagingNext ==
    \/ WorkBegin
    \/ \E res \in {Ok("connection")} \cup {Err(e) : e \in ConnectionErrors} :
          GetConnectionDone(res)
    \/ IssuePageRequest
    \/ \E resp \in PageResponses : PageResponse(resp)
    \/ SendPageDone
    \/ PollNext
    \/ DropIterator

\* ------------------------------------------------------------ SpecSession
\* the calls made on the Session
Calls == {1, 2}

\* the public entry points that run a statement with a retry policy
EntryPoints == {"query", "query_iter", "execute", "execute_iter", "batch"}

\* Option<Box<dyn RetryPolicy>> of a statement
None == <<>>
Some(policy) == <<policy>>

StatementPolicies == {None} \cup {Some(policy) : policy \in RetryPolicies}

\* the errors a call is answered with in SpecSession
SessionErrors == {Unavailable, ReadTimeout(2, 1, TRUE)}

\* where Session.retry_policy lives in policy_heap
SessionPolicyBox == 0

IdleCall ==
    [pc |-> "idle", entry |-> "query", is_idempotent |-> FALSE,
     statement_policy |-> None, box |-> SessionPolicyBox, log |-> <<>>]

SessionStart(policy) ==
    /\ policy_heap = [b \in {SessionPolicyBox} \cup Calls |-> policy]
    /\ calls = [c \in Calls |-> IdleCall]

SessionIdle == SessionStart(DefaultRetryPolicy_new)

\* the policy value a call starts with: the statement's own policy if it has
\* one (taken, or cloned where the statement is borrowed), else a clone of
\* Session.retry_policy; the paging entry points hand it to RowIterator, whose
\* worker decides with a clone of it
policy_for_call(entry, statement_policy, session_policy) ==
    LET chosen ==
            IF statement_policy # None
            THEN IF entry \in {"execute", "batch"}
                 THEN clone_boxed(statement_policy[1])
                 ELSE statement_policy[1]
            ELSE clone_boxed(session_policy)
    IN  IF entry \in {"query_iter", "execute_iter"} THEN clone_boxed(chosen) ELSE chosen

call_policy_box_is_session_policy(c) == SessionPolicyBox

\* the Box the call decides with is an allocation of its own
call_policy_box(c) == c

\* an entry point is called: it gets its retry policy and starts run_query or
\* the paging worker
BeginCall(c, entry, is_idempotent, statement_policy) ==
    /\ calls[c].pc = "idle"
    /\ LET box == call_policy_box(c) IN
        /\ policy_heap' =
              [policy_heap EXCEPT ![box] =
                  policy_for_call(entry, statement_policy, policy_heap[SessionPolicyBox])]
        /\ calls' = [calls EXCEPT ![c] =
              [pc |-> "running", entry |-> entry, is_idempotent |-> is_idempotent,
               statement_policy |-> statement_policy, box |-> box, log |-> <<>>]]
    /\ UNCHANGED nonSessVars

\* a request of call c fails with error and the call asks its policy, through
\* the `&mut` it holds, what to do
CallDecides(c, error) ==
    /\ calls[c].pc = "running"
    /\ Len(calls[c].log) < MaxCallDecisions
    /\ LET d == decide_should_retry(policy_heap[calls[c].box],
                                     QueryInfo(error, calls[c].is_idempotent)) IN
        /\ policy_heap' = [policy_heap EXCEPT ![calls[c].box] = d.self]
        /\ calls' = [calls EXCEPT
              ![c].log = Append(@, [error |-> error, decision |-> d.decision]),
              ![c].pc = IF d.decision = DontRetry THEN "done" ELSE "running"]
    /\ UNCHANGED nonSessVars

\* a request of call c succeeds
CallSucceeds(c) ==
    /\ calls[c].pc = "running"
    /\ calls' = [calls EXCEPT ![c].pc = "done"]
    /\ UNCHANGED policy_heap
    /\ UNCHANGED nonSessVars

SessionNext ==
    \/ \E c \in Calls, entry \in EntryPoints, is_idempotent \in BOOLEAN,
          statement_policy \in StatementPolicies :
          BeginCall(c, entry, is_idempotent, statement_policy)
    \/ \E c \in Calls, error \in SessionErrors : CallDecides(c, error)
    \/ \E c \in Calls : CallSucceeds(c)

\* ------------------------------------------------------------ SpecPrepare
IdsDifferError == ProtocolError("Prepared statement Ids differ, all should be equal")

\* ids the server assigns to the statement
PreparedIds == {"id1", "id2"}

PreparedStatement(id) == [id |-> id]

\* what a connection answers to PREPARE
PrepareResponses ==
    {Ok(PreparedStatement(id)) : id \in PreparedIds}
        \cup {Err(IOError), Err(PlainError("SyntaxError"))}

\* last_execute before the first EXECUTE
NoExecute == [connection |-> 0, res |-> Ok(<<>>)]

PrepareStart ==
    /\ prepare_pc = "start"
    /\ connections = 0
    /\ results = <<>>
    /\ answered = {}
    /\ prepare_result = Err(IOError)
    /\ last_execute = NoExecute

PrepareIdle == PrepareStart

pop_until_ok_pops_once(first_ok, remaining) ==
    [first_ok |-> <<remaining[Len(remaining)]>>,
     results |-> SubSeq(remaining, 1, Len(remaining) - 1)]

\* `while let Some(res) = results.pop()`: pops from the end until an Ok result
\* was popped; gives first_ok and what is left of results
RECURSIVE pop_until_ok(_, _)
pop_until_ok(first_ok, remaining) ==
    IF remaining = <<>>
    THEN [first_ok |-> first_ok, results |-> remaining]
    ELSE LET res == remaining[Len(remaining)]
             rest == SubSeq(remaining, 1, Len(remaining) - 1) IN
         IF res.ok
         THEN [first_ok |-> <<res>>, results |-> rest]
         ELSE pop_until_ok(<<res>>, rest)

ids_differ_from_neighbour(prepared, remaining) ==
    /\ remaining # <<>>
    /\ remaining[Len(remaining)].ok
    /\ prepared.id # remaining[Len(remaining)].value.id

\* `for res in results`: some Ok statement left in results has another id
ids_differ(prepared, remaining) ==
    \E i \in 1..Len(remaining) :
        remaining[i].ok /\ prepared.id # remaining[i].value.id

\* prepare after join_all, for a non-empty list of results
prepare_outcome(join_all_results) ==
    LET popped == pop_until_ok(<<>>, join_all_results)
        first_ok == popped.first_ok[1] IN
    IF ~first_ok.ok
    THEN first_ok
    ELSE IF ids_differ(first_ok.value, popped.results)
         THEN Err(IdsDifferError)
         ELSE first_ok

\* self.cluster.get_working_connections().await? completes with res
GetWorkingConnectionsDone(res) ==
    /\ prepare_pc = "start"
    /\ IF res.ok
       THEN /\ connections' = res.value
            /\ results' = [c \in 1..res.value |-> Err(IOError)]
            /\ prepare_pc' = "join_all"
            /\ UNCHANGED prepare_result
       ELSE /\ prepare_result' = res
            /\ prepare_pc' = "done"
            /\ UNCHANGED <<connections, results>>
    /\ UNCHANGED <<answered, last_execute>>
    /\ UNCHANGED nonPrepVars

\* c.prepare(query) of connection c completes with res
ConnectionPrepareDone(c, res) ==
    /\ prepare_pc = "join_all"
    /\ c \in (1..connections) \ answered
    /\ results' = [results EXCEPT ![c] = res]
    /\ answered' = answered \cup {c}
    /\ UNCHANGED <<prepare_pc, connections, prepare_result, last_execute>>
    /\ UNCHANGED nonPrepVars

\* join_all completes and prepare runs to its return
PrepareReturns ==
    /\ prepare_pc = "join_all"
    /\ answered = 1..connections
    /\ prepare_result' = prepare_outcome(results)
    /\ prepare_pc' = "done"
    /\ UNCHANGED <<connections, results, answered, last_execute>>
    /\ UNCHANGED nonPrepVars

\* the connections whose PREPARE succeeded
PreparedOn == {c \in answered : results[c].ok}

\* the statement prepare returned is executed on connection c; a connection
\* that prepared it answers with rows, another one may answer Unprepared
ExecuteOnConnection(c, res) ==
    /\ prepare_pc = "done"
    /\ prepare_result.ok
    /\ c \in 1..connections
    /\ c \in PreparedOn => res.ok
    /\ last_execute' = [connection |-> c, res |-> res]
    /\ UNCHANGED <<prepare_pc, connections, results, answered, prepare_result>>
    /\ UNCHANGED nonPrepVars

PrepareNext ==
    \/ \E res \in {Ok(n) : n \in 1..MaxConnections} \cup {Err(IOError)} :
          GetWorkingConnectionsDone(res)
    \/ \E c \in 1..MaxConnections, res \in PrepareResponses : ConnectionPrepareDone(c, res)
    \/ PrepareReturns
    \/ \E c \in 1..MaxConnections, res \in {Ok(<<>>), Err(PlainError("Unprepared"))} :
          ExecuteOnConnection(c, res)

\* ---------------------------------------------------------- SpecQueryText
\* the ASCII characters statement texts are made of
Alphabet == {"u", "U", "s", "S", "e", "E", " ", "k"}

QueryTexts == UNION {[1..n -> Alphabet] : n \in 0..MaxTextLen}

\* u8::to_ascii_lowercase
to_ascii_lowercase(ch) ==
    CASE ch = "U" -> "u"
      [] ch = "S" -> "s"
      [] ch = "E" -> "e"
      [] OTHER -> ch

\* <[u8]>::eq_ignore_ascii_case
eq_ignore_ascii_case(a, b) ==
    /\ Len(a) = Len(b)
    /\ \A i \in 1..Len(a) : to_ascii_lowercase(a[i]) = to_ascii_lowercase(b[i])

\* "use "
UsePrefix == <<"u", "s", "e", " ">>

query_is_setting_keyspace_case_sensitive(text) ==
    IF Len(text) < 4
    THEN FALSE
    ELSE SubSeq(text, 1, 4) = UsePrefix

query_is_setting_keyspace(text) ==
    IF Len(text) < 4
    THEN FALSE
    ELSE eq_ignore_ascii_case(SubSeq(text, 1, 4), UsePrefix)

\* str::trim: leading and trailing spaces removed
RECURSIVE trim_start(_)
trim_start(text) ==
    IF text # <<>> /\ Head(text) = " " THEN trim_start(Tail(text)) ELSE text

RECURSIVE trim_end(_)
trim_end(text) ==
    IF text # <<>> /\ text[Len(text)] = " "
    THEN trim_end(SubSeq(text, 1, Len(text) - 1))
    ELSE text

\* `&query_text["use ".len()..].trim_end_matches(';').trim()`, for texts of Alphabet
keyspace_name_of(text) == trim_start(trim_end(SubSeq(text, Len(UsePrefix) + 1, Len(text))))

QueryTextStart(text) ==
    /\ query_text = text
    /\ query_route = "called"
    /\ keyspace_name = <<>>
    /\ n_run_query = 0

QueryTextIdle == QueryTextStart(<<>>)

\* Session::query up to use_keyspace or run_query
RouteQuery ==
    /\ query_route = "called"
    /\ IF query_is_setting_keyspace(query_text)
       THEN /\ query_route' = "use_keyspace"
            /\ keyspace_name' = keyspace_name_of(query_text)
            /\ UNCHANGED n_run_query
       ELSE /\ query_route' = "run_query"
            /\ n_run_query' = n_run_query + 1
            /\ UNCHANGED keyspace_name
    /\ UNCHANGED query_text
    /\ UNCHANGED nonTextVars

QueryTextNext == RouteQuery

\* ---------------------------------------------------------- SpecWriteType
\* the strings WriteType::from is applied to
WriteTypeStrs ==
    {"SIMPLE", "BATCH", "UNLOGGED_BATCH", "COUNTER", "BATCH_LOG", "CAS", "VIEW", "CDC",
     "SOMEOTHER", "", "simple", "Simple", "batch_log", "BATCHLOG", "BATCH_LOG ", "Other",
     "cas", "OTHER"}

\* a WriteType: the variant, and the string of Other(String)
WriteTypeValue(variant, other) == [variant |-> variant, other |-> other]

UnitWriteType(variant) == WriteTypeValue(variant, "")

\* write_types[i] before WriteType::from was applied to write_type_strs[i]
NotParsed == WriteTypeValue("-", "")

WriteType_from_any_case(write_type_str) ==
    CASE write_type_str \in {"SIMPLE", "simple", "Simple"} -> UnitWriteType("Simple")
      [] write_type_str = "BATCH" -> UnitWriteType("Batch")
      [] write_type_str = "UNLOGGED_BATCH" -> UnitWriteType("UnloggedBatch")
      [] write_type_str = "COUNTER" -> UnitWriteType("Counter")
      [] write_type_str \in {"BATCH_LOG", "batch_log"} -> UnitWriteType("BatchLog")
      [] write_type_str \in {"CAS", "cas"} -> UnitWriteType("CAS")
      [] write_type_str = "VIEW" -> UnitWriteType("View")
      [] write_type_str = "CDC" -> UnitWriteType("CDC")
      [] OTHER -> WriteTypeValue("Other", write_type_str)

\* impl From<&str> for WriteType
WriteType_from(write_type_str) ==
    CASE write_type_str = "SIMPLE" -> UnitWriteType("Simple")
      [] write_type_str = "BATCH" -> UnitWriteType("Batch")
      [] write_type_str = "UNLOGGED_BATCH" -> UnitWriteType("UnloggedBatch")
      [] write_type_str = "COUNTER" -> UnitWriteType("Counter")
      [] write_type_str = "BATCH_LOG" -> UnitWriteType("BatchLog")
      [] write_type_str = "CAS" -> UnitWriteType("CAS")
      [] write_type_str = "VIEW" -> UnitWriteType("View")
      [] write_type_str = "CDC" -> UnitWriteType("CDC")
      [] OTHER -> WriteTypeValue("Other", write_type_str)

WriteTypeStart(strs) ==
    /\ write_type_strs = strs
    /\ write_types = <<NotParsed, NotParsed>>

WriteTypeIdle == WriteTypeStart(<<"", "">>)

\* WriteType::from(write_type_strs[i])
ParseWriteType(i) ==
    /\ write_types[i] = NotParsed
    /\ write_types' = [write_types EXCEPT ![i] = WriteType_from(write_type_strs[i])]
    /\ UNCHANGED write_type_strs
    /\ UNCHANGED nonWtVars

WriteTypeNext == \E i \in 1..2 : ParseWriteType(i)

\* ------------------------------------------------------- SpecPartitionKey
\* u16::MAX
U16Max == 65535

\* the serialized form of the CQL int n, 0 <= n < 256
IntBytes(n) == <<0, 0, 0, n>>

\* bound values: null, an empty value, the ints 3 and 4
BoundValueChoices == {None, Some(<<>>), Some(IntBytes(3)), Some(IntBytes(4))}

BoundValueLists == UNION {[1..n -> BoundValueChoices] : n \in 0..MaxValues}

\* pk_indexes as delivered: any order, repeated or out of range
PkIndexLists == UNION {[1..n -> 0..MaxValues] : n \in 0..MaxPkIndexes}

NoPkIndexValue(pk_index, values_len) ==
    [kind |-> "NoPkIndexValue", pk_index |-> pk_index, len |-> values_len]

ValueTooLong(value_len) == [kind |-> "ValueTooLong", pk_index |-> 0, len |-> value_len]

\* BufMut::put_u16: big-endian
put_u16(buf, n) == buf \o <<n \div 256, n % 256>>

\* the loop over pk_indexes, from position i on, buf being what was written
RECURSIVE compound_key(_, _, _, _)
compound_key(indexes, values, i, buf) ==
    IF i > Len(indexes)
    THEN Ok(buf)
    ELSE IF indexes[i] + 1 > Len(values)
         THEN Err(NoPkIndexValue(indexes[i], Len(values)))
         ELSE LET next_val == values[indexes[i] + 1] IN
              IF next_val = None
              THEN compound_key(indexes, values, i + 1, buf)
              ELSE IF Len(next_val[1]) > U16Max
                   THEN Err(ValueTooLong(Len(next_val[1])))
                   ELSE compound_key(indexes, values, i + 1,
                                     put_u16(buf, Len(next_val[1])) \o next_val[1] \o <<0>>)

compute_partition_key_always_compound(indexes, values) ==
    compound_key(indexes, values, 1, <<>>)

\* PreparedStatement::compute_partition_key
compute_partition_key(indexes, values) ==
    IF Len(indexes) = 1
    THEN IF indexes[1] + 1 > Len(values)
         THEN Err(NoPkIndexValue(indexes[1], Len(values)))
         ELSE LET v == values[indexes[1] + 1] IN
              Ok(IF v # None THEN v[1] ELSE <<>>)
    ELSE compound_key(indexes, values, 1, <<>>)

PartitionKeyStart(indexes, values) ==
    /\ pk_indexes = indexes
    /\ bound_values = values
    /\ pk_pc = "start"
    /\ partition_key = Ok(<<>>)

PartitionKeyIdle == PartitionKeyStart(<<>>, <<>>)

\* stmt.compute_partition_key(values)
ComputePartitionKey ==
    /\ pk_pc = "start"
    /\ partition_key' = compute_partition_key(pk_indexes, bound_values)
    /\ pk_pc' = "done"
    /\ UNCHANGED <<pk_indexes, bound_values>>
    /\ UNCHANGED nonPkVars

PartitionKeyNext == ComputePartitionKey

\* ----------------------------------------------------------- SpecKeyspace
\* "keyspace names can have up to 48 alpha-numeric characters"
MaxKeyspaceNameLen == 48

\* the concurrent calls of use_keyspace
UseCalls == {1, 2}

\* the connections of the cluster
KsConnections == {1, 2}

\* a name of n characters
LongName(n) == [i \in 1..n |-> "k"]

\* the names use_keyspace is called with: "", "ks", "K_1", "bad-name", and
\* names of 48 and 49 characters
KeyspaceNames ==
    {<<>>, <<"k", "s">>, <<"K", "_", "1">>, <<"b", "a", "d", "-", "n", "a", "m", "e">>,
     LongName(MaxKeyspaceNameLen), LongName(MaxKeyspaceNameLen + 1)}

\* [A-Za-z0-9_], as far as KeyspaceNames go
LegalNameChars == {"k", "s", "K", "_", "1", "b", "a", "d", "n", "m", "e"}

\* no keyspace: a connection before any USE
NoKeyspace == <<>>

BadKeyspaceName(variant, character) ==
    [kind |-> "BadQuery", bad_keyspace_name |-> variant, character |-> character]

IllegalPositions(name) == {i \in 1..Len(name) : name[i] \notin LegalNameChars}

FirstIllegalCharacter(name) ==
    name[CHOOSE i \in IllegalPositions(name) : \A j \in IllegalPositions(name) : i <= j]

\* VerifiedKeyspaceName::new: the results it can give; what it does with an
\* illegal character in case-sensitive mode is left open
VerifiedKeyspaceName_new(name, case_sensitive) ==
    IF name = <<>>
    THEN {Err(BadKeyspaceName("Empty", ""))}
    ELSE IF Len(name) > MaxKeyspaceNameLen
         THEN {Err(BadKeyspaceName("TooLong", ""))}
         ELSE IF IllegalPositions(name) # {}
              THEN {Err(BadKeyspaceName("IllegalCharacter", FirstIllegalCharacter(name)))}
                      \cup (IF case_sensitive THEN {Ok(name)} ELSE {})
              ELSE {Ok(name)}

IdleUseCall ==
    [pc |-> "idle", name |-> <<>>, case_sensitive |-> FALSE, answered |-> {},
     succeeded |-> {}, result |-> Ok(<<>>)]

KeyspaceStart ==
    /\ used_keyspace = [c \in KsConnections |-> NoKeyspace]
    /\ last_use_ok = [c \in KsConnections |-> 0]
    /\ use_calls = [u \in UseCalls |-> IdleUseCall]

KeyspaceIdle == KeyspaceStart

use_keyspace_proceeds_unverified(verified) == TRUE

\* `VerifiedKeyspaceName::new(..)?`: go on to the cluster only with a verified name
use_keyspace_proceeds(verified) == verified.ok

use_keyspace_returns_ok(cluster_result) == Ok(<<>>)

\* `self.cluster.use_keyspace(verified_ks_name).await?; Ok(())`
use_keyspace_returns(cluster_result) ==
    IF cluster_result.ok THEN Ok(<<>>) ELSE cluster_result

\* Session::use_keyspace up to the call of cluster.use_keyspace
CallUseKeyspace(u, name, case_sensitive, verified) ==
    /\ use_calls[u].pc = "idle"
    /\ verified \in VerifiedKeyspaceName_new(name, case_sensitive)
    /\ use_calls' = [use_calls EXCEPT ![u] =
          [pc |-> IF use_keyspace_proceeds(verified) THEN "sending" ELSE "done",
           name |-> name, case_sensitive |-> case_sensitive, answered |-> {},
           succeeded |-> {}, result |-> verified]]
    /\ UNCHANGED <<used_keyspace, last_use_ok>>
    /\ UNCHANGED nonKsVars

\* connection c answers the USE of call u with res
UseAnswered(u, c, res) ==
    /\ use_calls[u].pc = "sending"
    /\ c \notin use_calls[u].answered
    /\ use_calls' = [use_calls EXCEPT
          ![u].answered = @ \cup {c},
          ![u].succeeded = IF res.ok THEN @ \cup {c} ELSE @]
    /\ IF res.ok
       THEN /\ used_keyspace' = [used_keyspace EXCEPT ![c] = use_calls[u].name]
            /\ last_use_ok' = [last_use_ok EXCEPT ![c] = u]
       ELSE UNCHANGED <<used_keyspace, last_use_ok>>
    /\ UNCHANGED nonKsVars

\* cluster.use_keyspace returns, all connections having answered or one having
\* failed, and Session::use_keyspace returns
UseKeyspaceReturns(u) ==
    /\ use_calls[u].pc = "sending"
    /\ \/ use_calls[u].answered = KsConnections
       \/ use_calls[u].answered # use_calls[u].succeeded
    /\ use_calls' = [use_calls EXCEPT
          ![u].pc = "done",
          ![u].result = use_keyspace_returns(
                            IF use_calls[u].answered = use_calls[u].succeeded
                            THEN Ok(<<>>) ELSE Err(IOError))]
    /\ UNCHANGED <<used_keyspace, last_use_ok>>
    /\ UNCHANGED nonKsVars

KeyspaceNext ==
    \/ \E u \in UseCalls, name \in KeyspaceNames, case_sensitive \in BOOLEAN :
          \E verified \in VerifiedKeyspaceName_new(name, case_sensitive) :
              CallUseKeyspace(u, name, case_sensitive, verified)
    \/ \E u \in UseCalls, c \in KsConnections, res \in {Ok(<<>>), Err(IOError)} :
          UseAnswered(u, c, res)
    \/ \E u \in UseCalls : UseKeyspaceReturns(u)

\* ------------------------------------------------------------- SpecValues
ValueEntryPoints == {"query", "query_iter", "execute", "execute_iter"}

\* impl From<SerializeValuesError> for QueryError
SerializeValuesError ==
    MkError("BadQuery", 0, 0, FALSE, NoWriteType, "SerializeValuesError")

ValuesTooLongForKey(values_len, max_len) ==
    [kind |-> "BadQuery", received |-> 0, required |-> 0, data_present |-> FALSE,
     write_type |-> NoWriteType, msg |-> "ValuesTooLongForKey",
     values_len |-> values_len, max_len |-> max_len]

\* values.serialized(): the values, or the error of serializing them
SerializedResults == {Ok(<<Some(IntBytes(3))>>), Err(SerializeValuesError)}

\* what compute_partition_key can give
PartitionKeyResults ==
    {Ok(IntBytes(3)), Err(NoPkIndexValue(0, 0)), Err(ValueTooLong(U16Max + 1))}

murmur3_token(pk_result) == [token_of |-> pk_result]

calculate_token(pk_result) ==
    IF pk_result.ok
    THEN Ok(murmur3_token(pk_result.value))
    ELSE IF pk_result.err.kind = "NoPkIndexValue"
         THEN Err(ProtocolError("No pk indexes - can't calculate token"))
         ELSE Err(ValuesTooLongForKey(pk_result.err.len, U16Max))

\* the answers of a connection to a request it was sent
EntryResponses == {Ok("rows"), Err(IOError), Err(Unavailable)}

NoCall ==
    [entry |-> "none", is_use |-> FALSE, serialized |-> Ok(<<>>),
     partition_key |-> Ok(<<>>), is_idempotent |-> FALSE]

ValuesStart ==
    /\ entry_pc = "idle"
    /\ entry_call = NoCall
    /\ entry_plan = None
    /\ entry_pos = 0
    /\ entry_policy = DefaultRetryPolicy_new
    /\ entry_last_error = ProtocolError("Empty query plan - driver bug!")
    /\ n_acquired = 0
    /\ n_sent = 0
    /\ use_sent = FALSE
    /\ entry_result = Ok("none")

ValuesIdle == ValuesStart

\* the call returns result without reaching run_query
EntryReturns(call, result) ==
    /\ entry_call' = call
    /\ entry_pc' = "done"
    /\ entry_result' = result
    /\ UNCHANGED <<entry_plan, entry_pos, entry_policy, entry_last_error,
                   n_acquired, n_sent, use_sent>>

\* the call goes on at pc
EntryGoesOn(call, pc, policy) ==
    /\ entry_call' = call
    /\ entry_pc' = pc
    /\ entry_policy' = policy
    /\ UNCHANGED <<entry_plan, entry_pos, entry_last_error, n_acquired, n_sent,
                   use_sent, entry_result>>

\* Session::query up to the call of use_keyspace or run_query:
\* `values.serialized()` is kept as a Result
Session_query(is_use, serialized, is_idempotent, policy) ==
    /\ entry_pc = "idle"
    /\ LET call == [entry |-> "query", is_use |-> is_use, serialized |-> serialized,
                    partition_key |-> Ok(<<>>), is_idempotent |-> is_idempotent] IN
       EntryGoesOn(call, IF is_use THEN "use_keyspace" ELSE "run_query", policy)
    /\ UNCHANGED nonValVars

\* Session::query_iter: `values.serialized()?`, then the iterator
Session_query_iter(serialized) ==
    /\ entry_pc = "idle"
    /\ LET call == [entry |-> "query_iter", is_use |-> FALSE, serialized |-> serialized,
                    partition_key |-> Ok(<<>>), is_idempotent |-> FALSE] IN
       EntryReturns(call, IF serialized.ok THEN Ok("RowIterator") ELSE serialized)
    /\ UNCHANGED nonValVars

\* Session::execute up to the call of run_query:
\* `values.serialized()?`, `calculate_token(..)?`
Session_execute(serialized, pk_result, is_idempotent, policy) ==
    /\ entry_pc = "idle"
    /\ LET call == [entry |-> "execute", is_use |-> FALSE, serialized |-> serialized,
                    partition_key |-> pk_result, is_idempotent |-> is_idempotent]
           token == calculate_token(pk_result) IN
       IF ~serialized.ok
       THEN EntryReturns(call, serialized)
       ELSE IF ~token.ok
            THEN EntryReturns(call, token)
            ELSE EntryGoesOn(call, "run_query", policy)
    /\ UNCHANGED nonValVars

\* Session::execute_iter
Session_execute_iter(serialized, pk_result) ==
    /\ entry_pc = "idle"
    /\ LET call == [entry |-> "execute_iter", is_use |-> FALSE, serialized |-> serialized,
                    partition_key |-> pk_result, is_idempotent |-> FALSE]
           token == calculate_token(pk_result) IN
       IF ~serialized.ok
       THEN EntryReturns(call, serialized)
       ELSE IF ~token.ok
            THEN EntryReturns(call, token)
            ELSE EntryReturns(call, Ok("RowIterator"))
    /\ UNCHANGED nonValVars

\* the USE branch of Session::query: use_keyspace(..).await.map(|_| None);
\* the name verifies or not, and the connections answer the USE with result
UseKeyspaceRedirect(verified, result) ==
    /\ entry_pc = "use_keyspace"
    /\ entry_pc' = "done"
    /\ use_sent' = verified
    /\ entry_result' = IF ~verified THEN Err(BadQuery)
                       ELSE IF result.ok THEN Ok("none") ELSE result
    /\ UNCHANGED <<entry_call, entry_plan, entry_pos, entry_policy,
                   entry_last_error, n_acquired, n_sent>>
    /\ UNCHANGED nonValVars

\* after position pos of the plan: the next node, or Err(error)
EntryNextNode(plan, pos, error) ==
    IF pos < Len(plan)
    THEN /\ entry_pc' = "choose"
         /\ entry_pos' = pos + 1
         /\ UNCHANGED entry_result
    ELSE /\ entry_pc' = "done"
         /\ entry_pos' = pos
         /\ entry_result' = Err(error)

\* run_query: cluster.get_data() and load_balancer.plan(..)
RunQueryPlans(plan) ==
    /\ entry_pc = "run_query"
    /\ entry_plan' = Some(plan)
    /\ EntryNextNode(plan, 0, entry_last_error)
    /\ UNCHANGED <<entry_call, entry_policy, entry_last_error, n_acquired, n_sent,
                   use_sent>>
    /\ UNCHANGED nonValVars

\* run_query: choose_connection(node)
EntryChoosesConnection(result) ==
    /\ entry_pc = "choose"
    /\ IF result.ok
       THEN /\ n_acquired' = n_acquired + 1
            /\ entry_pc' = "do_query"
            /\ UNCHANGED <<entry_pos, entry_last_error, entry_result>>
       ELSE /\ entry_last_error' = result.err
            /\ EntryNextNode(entry_plan[1], entry_pos, result.err)
            /\ UNCHANGED n_acquired
    /\ UNCHANGED <<entry_call, entry_plan, entry_policy, n_sent, use_sent>>
    /\ UNCHANGED nonValVars

\* run_query: do_query(connection) and the retry decision; the connection sends
\* nothing when the values it is given are an error
EntryDoesQuery(response) ==
    /\ entry_pc = "do_query"
    /\ LET sends == entry_call.serialized.ok
           query_result == IF sends THEN response ELSE entry_call.serialized
       IN
       /\ n_sent' = IF sends THEN n_sent + 1 ELSE n_sent
       /\ IF query_result.ok
          THEN /\ entry_pc' = "done"
               /\ entry_result' = query_result
               /\ UNCHANGED <<entry_pos, entry_policy, entry_last_error>>
          ELSE LET decided == decide_should_retry(
                                  entry_policy,
                                  QueryInfo(query_result.err, entry_call.is_idempotent))
               IN
               /\ entry_last_error' = query_result.err
               /\ entry_policy' = decided.self
               /\ CASE decided.decision = RetrySameNode ->
                         /\ entry_pc' = "choose"
                         /\ UNCHANGED <<entry_pos, entry_result>>
                    [] decided.decision = RetryNextNode ->
                         EntryNextNode(entry_plan[1], entry_pos, query_result.err)
                    [] OTHER ->
                         /\ entry_pc' = "done"
                         /\ entry_result' = query_result
                         /\ UNCHANGED entry_pos
    /\ UNCHANGED <<entry_call, entry_plan, n_acquired, use_sent>>
    /\ UNCHANGED nonValVars

ValuesNext ==
    \/ \E is_use \in BOOLEAN, serialized \in SerializedResults,
          is_idempotent \in BOOLEAN, policy \in RetryPolicies :
          Session_query(is_use, serialized, is_idempotent, policy)
    \/ \E serialized \in SerializedResults : Session_query_iter(serialized)
    \/ \E serialized \in SerializedResults, pk_result \in PartitionKeyResults,
          is_idempotent \in BOOLEAN, policy \in RetryPolicies :
          Session_execute(serialized, pk_result, is_idempotent, policy)
    \/ \E serialized \in SerializedResults, pk_result \in PartitionKeyResults :
          Session_execute_iter(serialized, pk_result)
    \/ \E verified \in BOOLEAN, result \in {Ok("none"), Err(IOError)} :
          UseKeyspaceRedirect(verified, result)
    \/ \E plan \in QueryPlans : RunQueryPlans(plan)
    \/ \E result \in {Ok("connection")} \cup {Err(e) : e \in ConnectionErrors} :
          EntryChoosesConnection(result)
    \/ \E response \in EntryResponses : EntryDoesQuery(response)

\* ----------------------------------------------------------- SpecTopology
\* a snapshot: the nodes it knows, in its order
Snapshots == QueryPlans

\* load_balancer.plan(statement, cluster_data): the nodes of the snapshot it is
\* given, starting at any of them
PlansOf(snapshot) ==
    IF snapshot = <<>> THEN {<<>>}
    ELSE {[i \in 1..Len(snapshot) |-> snapshot[((i - 1 + r) % Len(snapshot)) + 1]] :
             r \in 0..(Len(snapshot) - 1)}

TopologyStart(snapshot) ==
    /\ cluster_data = snapshot
    /\ n_refreshes = 0
    /\ topo_pc = "idle"
    /\ topo_kind = "none"
    /\ held_cluster_data = <<>>
    /\ topo_plan = <<>>
    /\ topo_pos = 0
    /\ topo_tried = <<>>

TopologyIdle == TopologyStart(<<>>)

next_node_of_published(plan, published, pos) ==
    IF pos <= Len(published) THEN published[pos] ELSE plan[pos]

\* `for node in query_plan`: the loop takes its nodes from the plan it was given
next_node(plan, published, pos) == plan[pos]

\* the cluster publishes a new snapshot
RefreshTopology(snapshot) ==
    /\ n_refreshes < MaxRefreshes
    /\ snapshot # cluster_data
    /\ cluster_data' = snapshot
    /\ n_refreshes' = n_refreshes + 1
    /\ UNCHANGED <<topo_pc, topo_kind, held_cluster_data, topo_plan, topo_pos,
                   topo_tried>>
    /\ UNCHANGED nonTopoVars

\* run_query: self.cluster.get_data() and load_balancer.plan(..)
RunQueryReadsSnapshot(plan) ==
    /\ topo_pc = "idle"
    /\ plan \in PlansOf(cluster_data)
    /\ topo_pc' = "running"
    /\ topo_kind' = "run_query"
    /\ held_cluster_data' = cluster_data
    /\ topo_plan' = plan
    /\ UNCHANGED <<cluster_data, n_refreshes, topo_pos, topo_tried>>
    /\ UNCHANGED nonTopoVars

\* query_iter / execute_iter: self.cluster.get_data() goes into the iterator
IteratorReadsSnapshot ==
    /\ topo_pc = "idle"
    /\ topo_pc' = "constructed"
    /\ topo_kind' = "worker"
    /\ held_cluster_data' = cluster_data
    /\ UNCHANGED <<cluster_data, n_refreshes, topo_plan, topo_pos, topo_tried>>
    /\ UNCHANGED nonTopoVars

\* WorkerHelper::work: load_balancer.plan(.., &cluster_data)
WorkerPlans(plan) ==
    /\ topo_pc = "constructed"
    /\ plan \in PlansOf(held_cluster_data)
    /\ topo_pc' = "running"
    /\ topo_plan' = plan
    /\ UNCHANGED <<cluster_data, n_refreshes, topo_kind, held_cluster_data,
                   topo_pos, topo_tried>>
    /\ UNCHANGED nonTopoVars

\* one round of 'nodes_in_plan: the next node is tried, and the query returns
\* from it or goes on to the next one
TopologyTriesNode(returns) ==
    /\ topo_pc = "running"
    /\ IF topo_pos < Len(topo_plan)
       THEN /\ topo_pos' = topo_pos + 1
            /\ topo_tried' =
                  Append(topo_tried, next_node(topo_plan, cluster_data, topo_pos + 1))
            /\ topo_pc' = IF returns THEN "done" ELSE "running"
       ELSE /\ topo_pc' = "done"
            /\ UNCHANGED <<topo_pos, topo_tried>>
    /\ UNCHANGED <<cluster_data, n_refreshes, topo_kind, held_cluster_data, topo_plan>>
    /\ UNCHANGED nonTopoVars

TopologyNext ==
    \/ \E snapshot \in Snapshots : RefreshTopology(snapshot)
    \/ \E plan \in QueryPlans : RunQueryReadsSnapshot(plan)
    \/ IteratorReadsSnapshot
    \/ \E plan \in QueryPlans : WorkerPlans(plan)
    \/ \E returns \in BOOLEAN : TopologyTriesNode(returns)

\* ------------------------------------------------------------ SpecStreams
\* the stream ids of a connection (2^15 of them on a real one)
StreamIds == 0..(MaxStreamIds - 1)

StreamRequests == 1..MaxStreamRequests

\* no stream id
NoStreamId == -1

NewRequest == [state |-> "new", stream_id |-> NoStreamId, result |-> Ok("none")]

StreamsStart ==
    /\ conn_open = TRUE
    /\ allocated_ids = {}
    /\ waiters = <<>>
    /\ stream_requests = [r \in StreamRequests |-> NewRequest]
    /\ on_wire = {}

StreamsIdle == StreamsStart

\* the waiters without those of ids
WithoutWaiters(map, ids) == [id \in (DOMAIN map) \ ids |-> map[id]]

\* the waiters with request parked at stream_id
WithWaiter(map, stream_id, request) ==
    [id \in (DOMAIN map) \cup {stream_id} |->
        IF id = stream_id THEN request ELSE map[id]]

free_stream_id_leaks(ids, stream_id) == ids

\* the id goes back to the free pool
free_stream_id(ids, stream_id) == ids \ {stream_id}

\* send(opcode, body): allocates a stream id, writes the frame, parks the waiter
StreamSend(r, stream_id) ==
    /\ conn_open
    /\ stream_requests[r].state = "new"
    /\ stream_id \in StreamIds \ allocated_ids
    /\ allocated_ids' = allocated_ids \cup {stream_id}
    /\ waiters' = WithWaiter(waiters, stream_id, r)
    /\ stream_requests' = [stream_requests EXCEPT
          ![r] = [state |-> "in_flight", stream_id |-> stream_id, result |-> Ok("none")]]
    /\ on_wire' = on_wire \cup {stream_id}
    /\ UNCHANGED conn_open
    /\ UNCHANGED nonStrVars

\* send on a closed connection
StreamSendClosed(r) ==
    /\ ~conn_open
    /\ stream_requests[r].state = "new"
    /\ stream_requests' = [stream_requests EXCEPT
          ![r] = [state |-> "done", stream_id |-> NoStreamId, result |-> Err(IOError)]]
    /\ UNCHANGED <<conn_open, allocated_ids, waiters, on_wire>>
    /\ UNCHANGED nonStrVars

\* the read task gets the response with stream_id: the matching waiter is
\* woken and the id freed; a response nobody waits for is dropped
StreamResponse(stream_id) ==
    /\ conn_open
    /\ stream_id \in on_wire
    /\ on_wire' = on_wire \ {stream_id}
    /\ IF stream_id \in DOMAIN waiters
       THEN /\ stream_requests' = [stream_requests EXCEPT
                  ![waiters[stream_id]] =
                      [state |-> "done", stream_id |-> NoStreamId, result |-> Ok("response")]]
            /\ waiters' = WithoutWaiters(waiters, {stream_id})
            /\ allocated_ids' = free_stream_id(allocated_ids, stream_id)
       ELSE UNCHANGED <<stream_requests, waiters, allocated_ids>>
    /\ UNCHANGED conn_open
    /\ UNCHANGED nonStrVars

\* the future of request r is dropped (cancelled, or the timer it raced with
\* won): its waiter is dropped and its id freed
StreamCancel(r) ==
    /\ stream_requests[r].state = "in_flight"
    /\ stream_requests' = [stream_requests EXCEPT
          ![r] = [state |-> "cancelled", stream_id |-> NoStreamId, result |-> Ok("none")]]
    /\ waiters' = WithoutWaiters(waiters, {stream_requests[r].stream_id})
    /\ allocated_ids' = free_stream_id(allocated_ids, stream_requests[r].stream_id)
    /\ UNCHANGED <<conn_open, on_wire>>
    /\ UNCHANGED nonStrVars

\* the connection closes: all outstanding waiters complete with IOError
StreamClose ==
    /\ conn_open
    /\ conn_open' = FALSE
    /\ stream_requests' = [r \in StreamRequests |->
          IF stream_requests[r].state = "in_flight"
          THEN [state |-> "done", stream_id |-> NoStreamId, result |-> Err(IOError)]
          ELSE stream_requests[r]]
    /\ waiters' = <<>>
    /\ allocated_ids' = {}
    /\ on_wire' = {}
    /\ UNCHANGED nonStrVars

StreamsNext ==
    \/ \E r \in StreamRequests, stream_id \in StreamIds : StreamSend(r, stream_id)
    \/ \E r \in StreamRequests : StreamSendClosed(r)
    \/ \E stream_id \in StreamIds : StreamResponse(stream_id)
    \/ \E r \in StreamRequests : StreamCancel(r)
    \/ StreamClose

\* ------------------------------------------------------------- SpecDecode
\* the outcome of a deser_ function: a value and the rest of the buffer, an
\* error value, or a panic
DOk(value, rest) == [tag |-> "ok", value |-> value, rest |-> rest]

DErr(reason) == [tag |-> "err", value |-> reason, rest |-> <<>>]

DPanic(reason) == [tag |-> "panic", value |-> reason, rest |-> <<>>]

Take(buf, n) == SubSeq(buf, 1, n)

Drop(buf, n) == SubSeq(buf, n + 1, Len(buf))

\* big-endian two's complement of 2 and of 4 bytes
I16(b1, b2) == (IF b1 >= 128 THEN b1 - 256 ELSE b1) * 256 + b2

I32(b1, b2, b3, b4) ==
    (IF b1 >= 128 THEN b1 - 256 ELSE b1) * 16777216 + b2 * 65536 + b3 * 256 + b4

\* v, evaluated once, handed to F
Bind(v, F(_)) == CHOOSE r \in {F(x) : x \in {v}} : TRUE

\* `r?` and what follows it: the error or panic of r, or F of what r gave
AndThen(r, F(_)) == Bind(r, LAMBDA x : IF x.tag # "ok" THEN x ELSE F(x))

\* types::read_int, read_short, read_bytes_opt, read_bytes, read_string
read_int(buf) ==
    Bind(buf, LAMBDA b :
        IF Len(b) < 4 THEN DErr("eof")
        ELSE DOk(I32(b[1], b[2], b[3], b[4]), Drop(b, 4)))

read_short(buf) ==
    Bind(buf, LAMBDA b :
        IF Len(b) < 2 THEN DErr("eof")
        ELSE DOk(I16(b[1], b[2]), Drop(b, 2)))

read_bytes_opt(buf) ==
    AndThen(read_int(buf), LAMBDA len :
        IF len.value < 0 THEN DOk(None, len.rest)
        ELSE IF Len(len.rest) < len.value THEN DErr("eof")
        ELSE DOk(Some(Take(len.rest, len.value)), Drop(len.rest, len.value)))

read_bytes(buf) ==
    AndThen(read_bytes_opt(buf), LAMBDA bytes :
        IF bytes.value = None THEN DErr("negative length")
        ELSE DOk(bytes.value[1], bytes.rest))

\* str::from_utf8, told apart on ASCII only: a byte above 127 is not accepted
from_utf8(bytes) ==
    Bind(bytes, LAMBDA b :
        IF \A i \in 1..Len(b) : b[i] < 128 THEN DOk(b, <<>>) ELSE DErr("utf8"))

read_string(buf) ==
    AndThen(read_short(buf), LAMBDA len :
        IF len.value < 0 \/ Len(len.rest) < len.value THEN DErr("eof")
        ELSE AndThen(from_utf8(Take(len.rest, len.value)), LAMBDA text :
                 DOk(text.value, Drop(len.rest, len.value))))

\* `x as usize` of a negative i16: above any buffer length
UsizeOfNegative == 2147483647

as_usize(n) == IF n < 0 THEN UsizeOfNegative ELSE n

deser_table_spec(buf) ==
    AndThen(read_string(buf), LAMBDA ks_name :
    AndThen(read_string(ks_name.rest), LAMBDA table_name :
        DOk([ks_name |-> ks_name.value, table_name |-> table_name.value],
            table_name.rest)))

\* a ColumnType is <<"Int">>, <<"Text">>, .. and <<"Set">> \o the element type
RECURSIVE deser_type(_)
deser_type(buf) ==
    AndThen(read_short(buf), LAMBDA id :
        CASE id.value = 1 -> DOk(<<"Ascii">>, id.rest)
          [] id.value = 2 -> DOk(<<"BigInt">>, id.rest)
          [] id.value = 9 -> DOk(<<"Int">>, id.rest)
          [] id.value = 13 -> DOk(<<"Text">>, id.rest)
          [] id.value = 16 -> DOk(<<"Inet">>, id.rest)
          [] id.value = 34 ->
                AndThen(deser_type(id.rest), LAMBDA inner :
                    DOk(<<"Set">> \o inner.value, inner.rest))
          [] OTHER -> DErr("Type not yet implemented"))

\* the loop of deser_col_specs with remaining columns to read
RECURSIVE deser_col_specs_from(_, _, _, _)
deser_col_specs_from(buf, global_table_spec, remaining, col_specs) ==
    IF remaining = 0 THEN DOk(col_specs, buf)
    ELSE AndThen(IF global_table_spec # None
                 THEN DOk(global_table_spec[1], buf)
                 ELSE deser_table_spec(buf), LAMBDA table_spec :
         AndThen(read_string(table_spec.rest), LAMBDA name :
         AndThen(deser_type(name.rest), LAMBDA typ :
         Bind(Append(col_specs, [table_spec |-> table_spec.value,
                                 name |-> name.value,
                                 typ |-> typ.value]), LAMBDA pushed :
             deser_col_specs_from(typ.rest, global_table_spec, remaining - 1,
                                  pushed)))))

deser_col_specs(buf, global_table_spec, col_count) ==
    deser_col_specs_from(buf, global_table_spec, col_count, <<>>)

\* flags & mask != 0, mask being 2^bit
FlagSet(flags, bit) == ((flags \div (2 ^ bit)) % 2) = 1

\* the table spec and the column specs that end both kinds of metadata
deser_specs(buf, global_tables_spec, col_count) ==
    AndThen(IF global_tables_spec
            THEN AndThen(deser_table_spec(buf), LAMBDA spec :
                     DOk(Some(spec.value), spec.rest))
            ELSE DOk(None, buf), LAMBDA global_table_spec :
        deser_col_specs(global_table_spec.rest, global_table_spec.value, col_count))

deser_result_metadata(buf) ==
    AndThen(read_int(buf), LAMBDA flags :
    AndThen(read_int(flags.rest), LAMBDA col_count :
        IF col_count.value < 0 THEN DErr("Invalid negative column count")
        ELSE
    AndThen(IF FlagSet(flags.value, 1)
            THEN AndThen(read_bytes(col_count.rest), LAMBDA bytes :
                     DOk(Some(bytes.value), bytes.rest))
            ELSE DOk(None, col_count.rest), LAMBDA state :
        IF FlagSet(flags.value, 2)
        THEN DOk([col_count |-> col_count.value, paging_state |-> state.value,
                  col_specs |-> <<>>], state.rest)
        ELSE
    AndThen(deser_specs(state.rest, FlagSet(flags.value, 0), col_count.value),
            LAMBDA col_specs :
        DOk([col_count |-> col_count.value, paging_state |-> state.value,
             col_specs |-> col_specs.value], col_specs.rest)))))

\* the loop reading pk_count shorts
RECURSIVE deser_pk_indexes(_, _, _)
deser_pk_indexes(buf, remaining, indexes) ==
    IF remaining = 0 THEN DOk(indexes, buf)
    ELSE AndThen(read_short(buf), LAMBDA index :
         Bind(Append(indexes, index.value % 65536), LAMBDA pushed :
             deser_pk_indexes(index.rest, remaining - 1, pushed)))

deser_prepared_metadata(buf) ==
    AndThen(read_int(buf), LAMBDA flags :
    AndThen(read_int(flags.rest), LAMBDA col_count :
        IF col_count.value < 0 THEN DErr("Invalid negative column count")
        ELSE
    AndThen(read_int(col_count.rest), LAMBDA pk_count :
        IF pk_count.value < 0 THEN DErr("Invalid negative pk count")
        ELSE
    AndThen(deser_pk_indexes(pk_count.rest, pk_count.value, <<>>), LAMBDA indexes :
    AndThen(deser_specs(indexes.rest, FlagSet(flags.value, 0), col_count.value),
            LAMBDA col_specs :
        DOk([col_count |-> col_count.value, pk_indexes |-> indexes.value,
             col_specs |-> col_specs.value], col_specs.rest))))))

CQLValue(variant, value) == [variant |-> variant, value |-> value]

\* deser_cql_value; the Set arm loops over its elements
RECURSIVE deser_cql_value(_, _)
RECURSIVE deser_set_elements(_, _, _, _)
deser_cql_value(typ, buf) ==
    CASE typ[1] = "Ascii" ->
            IF \E i \in 1..Len(buf) : buf[i] >= 128 THEN DErr("Not an ascii string")
            ELSE DOk(CQLValue("Ascii", buf), buf)
      [] typ[1] = "Int" ->
            IF Len(buf) # 4 THEN DErr("Expected buffer length of 4 bytes")
            ELSE DOk(CQLValue("Int", <<I32(buf[1], buf[2], buf[3], buf[4])>>), <<>>)
      [] typ[1] = "BigInt" ->
            IF Len(buf) # 8 THEN DErr("Expected buffer length of 8 bytes")
            ELSE DOk(CQLValue("BigInt", <<I32(buf[1], buf[2], buf[3], buf[4]),
                                          I32(buf[5], buf[6], buf[7], buf[8])>>), <<>>)
      [] typ[1] = "Text" ->
            AndThen(from_utf8(buf), LAMBDA text : DOk(CQLValue("Text", text.value), buf))
      [] typ[1] = "Inet" ->
            IF Len(buf) \in {4, 16} THEN DOk(CQLValue("Inet", buf), <<>>)
            ELSE DErr("Invalid number of bytes for inet value")
      [] OTHER ->
            AndThen(read_int(buf), LAMBDA len :
                IF len.value < 0 THEN DErr("Invalid number of set elements")
                ELSE deser_set_elements(Tail(typ), len.rest, len.value, <<>>))

deser_set_elements(typ, buf, remaining, res) ==
    IF remaining = 0 THEN DOk(CQLValue("Set", res), buf)
    ELSE AndThen(read_bytes(buf), LAMBDA b :
         AndThen(deser_cql_value(typ, b.value), LAMBDA element :
         Bind(Append(res, element.value), LAMBDA pushed :
             deser_set_elements(typ, b.rest, remaining - 1, pushed))))

column_type_of_first(metadata, i) == metadata.col_specs[1].typ

\* `&metadata.col_specs[i].typ`, i counted from 1
column_type(metadata, i) == metadata.col_specs[i].typ

\* the loop over the columns of one row, from column i on
RECURSIVE deser_columns_from(_, _, _, _)
deser_columns_from(buf, metadata, i, columns) ==
    IF i > metadata.col_count THEN DOk(columns, buf)
    ELSE AndThen(read_bytes_opt(buf), LAMBDA b :
         AndThen(IF b.value = None THEN DOk(None, <<>>)
                 ELSE IF i > Len(metadata.col_specs)
                 THEN DPanic("index out of bounds")
                 ELSE AndThen(deser_cql_value(column_type(metadata, i), b.value[1]),
                              LAMBDA value : DOk(Some(value.value), <<>>)),
                 LAMBDA v :
         Bind(Append(columns, v.value), LAMBDA pushed :
             deser_columns_from(b.rest, metadata, i + 1, pushed))))

\* the loop over the rows
RECURSIVE deser_rows_from(_, _, _, _)
deser_rows_from(buf, metadata, remaining, rows) ==
    IF remaining = 0 THEN DOk(rows, buf)
    ELSE AndThen(deser_columns_from(buf, metadata, 1, <<>>), LAMBDA columns :
         Bind(Append(rows, [columns |-> columns.value]), LAMBDA pushed :
             deser_rows_from(columns.rest, metadata, remaining - 1, pushed)))

deser_rows(buf) ==
    AndThen(deser_result_metadata(buf), LAMBDA metadata :
        IF metadata.value.col_count # Len(metadata.value.col_specs)
        THEN DPanic("assertion failed: metadata.col_count == metadata.col_specs.len()")
        ELSE
    AndThen(read_int(metadata.rest), LAMBDA rows_count :
        IF rows_count.value < 0 THEN DErr("Invalid negative number of rows")
        ELSE
    AndThen(deser_rows_from(rows_count.rest, metadata.value, rows_count.value, <<>>),
            LAMBDA rows :
        DOk([kind |-> "Rows", metadata |-> metadata.value,
             rows_count |-> rows_count.value, rows |-> rows.value], rows.rest))))

deser_set_keyspace(buf) == DOk([kind |-> "SetKeyspace"], buf)

deser_schema_change(buf) == DOk([kind |-> "SchemaChange"], buf)

deser_prepared(buf) ==
    AndThen(read_short(buf), LAMBDA id_len :
        IF as_usize(id_len.value) > Len(id_len.rest)
        THEN DPanic("range end index out of range for slice")
        ELSE
    AndThen(deser_prepared_metadata(Drop(id_len.rest, id_len.value)),
            LAMBDA prepared_metadata :
    AndThen(deser_result_metadata(prepared_metadata.rest), LAMBDA result_metadata :
        DOk([kind |-> "Prepared", id |-> Take(id_len.rest, id_len.value),
             prepared_metadata |-> prepared_metadata.value,
             result_metadata |-> result_metadata.value], result_metadata.rest))))

deserialize(buf) ==
    AndThen(read_int(buf), LAMBDA kind :
        CASE kind.value = 1 -> DOk([kind |-> "Void"], kind.rest)
          [] kind.value = 2 -> deser_rows(kind.rest)
          [] kind.value = 3 -> deser_set_keyspace(kind.rest)
          [] kind.value = 4 -> deser_prepared(kind.rest)
          [] kind.value = 5 -> deser_schema_change(kind.rest)
          [] OTHER -> DErr("Unknown query result kind"))

\* the wire format of the values a body is made of: [short], [int], [string],
\* [bytes] and the null [bytes]
enc_short(n) ==
    LET m == IF n < 0 THEN n + 65536 ELSE n IN <<m \div 256, m % 256>>

enc_int(n) ==
    LET m == IF n < 0 THEN (n + 2147483647) + 1 ELSE n IN
    <<(IF n < 0 THEN 128 ELSE 0) + (m \div 16777216), (m \div 65536) % 256,
      (m \div 256) % 256, m % 256>>

enc_string(bytes) == enc_short(Len(bytes)) \o bytes

enc_bytes(bytes) == enc_int(Len(bytes)) \o bytes

enc_cell(cell) == IF cell = None THEN enc_int(-1) ELSE enc_bytes(cell[1])

RECURSIVE Concat(_)
Concat(seqs) == IF seqs = <<>> THEN <<>> ELSE Head(seqs) \o Concat(Tail(seqs))

\* the column types bodies are built with
WireTypes == {<<"Int">>, <<"Text">>, <<"Set", "Int">>}

RECURSIVE enc_type(_)
enc_type(typ) ==
    CASE typ[1] = "Int" -> enc_short(9)
      [] typ[1] = "Text" -> enc_short(13)
      [] OTHER -> enc_short(34) \o enc_type(Tail(typ))

\* table spec ks.t, column name c
enc_table_spec == enc_string(<<107, 115>>) \o enc_string(<<116>>)

enc_col_specs(types, global_tables_spec) ==
    Concat([i \in 1..Len(types) |->
                (IF global_tables_spec THEN <<>> ELSE enc_table_spec)
                    \o enc_string(<<99>>) \o enc_type(types[i])])

enc_specs(types, global_tables_spec) ==
    (IF global_tables_spec THEN enc_table_spec ELSE <<>>)
        \o enc_col_specs(types, global_tables_spec)

enc_result_metadata(flags, col_count, types) ==
    enc_int(flags) \o enc_int(col_count)
        \o (IF FlagSet(flags, 1) THEN enc_bytes(<<1>>) ELSE <<>>)
        \o (IF FlagSet(flags, 2) THEN <<>> ELSE enc_specs(types, FlagSet(flags, 0)))

\* how the rows of a body are filled: a value in every column, NULL in the odd
\* columns, or one byte in every column
RowKinds == {"values", "odd_nulls", "one_byte"}

\* a value of the type on the wire: int 3, text "a", set {3}
WireValue(typ) ==
    CASE typ[1] = "Int" -> IntBytes(3)
      [] typ[1] = "Text" -> <<97>>
      [] OTHER -> enc_int(1) \o enc_bytes(IntBytes(3))

CellOf(row_kind, typ, i) ==
    CASE row_kind = "values" -> Some(WireValue(typ))
      [] row_kind = "odd_nulls" -> IF i % 2 = 1 THEN None ELSE Some(WireValue(typ))
      [] OTHER -> Some(<<1>>)

enc_row(row_kind, types) ==
    Concat([i \in 1..Len(types) |-> enc_cell(CellOf(row_kind, types[i], i))])

\* no truncation
NoCut == -1

Body(kind, flags, declared, types, rows, id, cut) ==
    [kind |-> kind, flags |-> flags, declared |-> declared, types |-> types,
     rows |-> rows, id |-> id, cut |-> cut]

NoBody == Body("none", 0, 0, <<>>, <<>>, <<>>, NoCut)

TypeLists == UNION {[1..n -> WireTypes] : n \in 0..MaxCols}

RowLists == UNION {[1..n -> RowKinds] : n \in 0..MaxRows}

\* Rows bodies: flags none, global table spec, global table spec with a paging
\* state, no metadata; the column count right or one too many
RowsBodies ==
    {Body("Rows", flags, Len(types) + more, types, rows, <<>>, cut) :
        flags \in {0, 1, 3, 4}, more \in {0, 1}, types \in TypeLists,
        rows \in RowLists, cut \in {NoCut} \cup 0..MaxPrefix}

\* Prepared bodies: an id of 0..MaxIdLen bytes, its length right, one too
\* many or 0xFFFF
PreparedBodies ==
    {Body("Prepared", flags, declared, types, <<>>, [i \in 1..n |-> 6 + i], cut) :
        flags \in {0, 1}, n \in 0..MaxIdLen, declared \in {-1} \cup 0..(MaxIdLen + 1),
        types \in TypeLists, cut \in {NoCut} \cup 0..MaxPrefix}

\* bodies given by their bytes: Void, SetKeyspace, SchemaChange, an unknown
\* kind, nothing, and Rows with a negative column count, an unknown column
\* type and a negative row count
RawBodies ==
    {Body("Raw", 0, 0, <<>>, <<>>, bytes, NoCut) :
        bytes \in {enc_int(1), enc_int(3), enc_int(5), enc_int(9), <<>>,
                   enc_int(2) \o enc_int(0) \o enc_int(-1),
                   enc_int(2) \o enc_int(1) \o enc_int(1) \o enc_table_spec
                       \o enc_string(<<99>>) \o enc_short(3) \o enc_int(0),
                   enc_int(2) \o enc_int(4) \o enc_int(0) \o enc_int(-1)}}

SentBodies ==
    {b \in RowsBodies : b.cut = NoCut \/ b.declared = Len(b.types)}
        \cup {b \in PreparedBodies : b.declared \in {-1, Len(b.id), Len(b.id) + 1}}
        \cup RawBodies

\* the bytes of a body, before truncation
enc_body(body) ==
    CASE body.kind = "Rows" ->
            enc_int(2) \o enc_result_metadata(body.flags, body.declared, body.types)
                \o enc_int(Len(body.rows))
                \o Concat([r \in 1..Len(body.rows) |->
                               enc_row(body.rows[r],
                                       IF FlagSet(body.flags, 2)
                                       THEN [i \in 1..body.declared |-> <<"Int">>]
                                       ELSE body.types)])
      [] body.kind = "Prepared" ->
            enc_int(4) \o enc_short(body.declared) \o body.id
                \o enc_int(body.flags) \o enc_int(Len(body.types))
                \o enc_int(IF body.types = <<>> THEN 0 ELSE 1)
                \o (IF body.types = <<>> THEN <<>> ELSE enc_short(0))
                \o enc_specs(body.types, FlagSet(body.flags, 0))
                \o enc_result_metadata(4, 0, <<>>)
      [] OTHER -> body.id

Wire(body) ==
    LET bytes == enc_body(body) IN
    IF body.cut = NoCut \/ body.cut >= Len(bytes) THEN bytes ELSE Take(bytes, body.cut)

DecodeStart(body) ==
    /\ sent_body = body
    /\ body_buf = Wire(body)
    /\ decode_pc = "received"
    /\ decoded = DErr("none")
    /\ surfaced = Ok("none")

DecodeIdle ==
    /\ sent_body = NoBody
    /\ body_buf = <<>>
    /\ decode_pc = "idle"
    /\ decoded = DErr("none")
    /\ surfaced = Ok("none")

\* the task that decodes the body has panicked
Aborted == Err(PlainError("panic"))

\* result::deserialize on the body
Deserialize ==
    /\ decode_pc = "received"
    /\ decoded' = deserialize(body_buf)
    /\ decode_pc' = "decoded"
    /\ UNCHANGED <<body_buf, sent_body, surfaced>>
    /\ UNCHANGED nonDecVars

\* the caller gets the result, or the parse error as a QueryError
SurfaceResult ==
    /\ decode_pc = "decoded"
    /\ surfaced' = CASE decoded.tag = "ok" -> Ok(decoded.value.kind)
                     [] decoded.tag = "err" -> Err(ProtocolError("Error parsing message"))
                     [] OTHER -> Aborted
    /\ decode_pc' = "surfaced"
    /\ UNCHANGED <<body_buf, sent_body, decoded>>
    /\ UNCHANGED nonDecVars

DecodeNext ==
    \/ Deserialize
    \/ SurfaceResult

\* -------------------------------------------------------------- SpecToken
\* lengths of bound values: empty, an int, the longest value a compound key
\* takes, and one byte more
ValueLens == {0, 4, U16Max, U16Max + 1}

ValueLenChoices == {None} \cup {Some(n) : n \in ValueLens}

ValueLenLists == UNION {[1..n -> ValueLenChoices] : n \in 0..MaxValues}

\* the loop over pk_indexes on the values' lengths, from position i on, buf_len
\* being the number of bytes written
RECURSIVE compound_key_len(_, _, _, _)
compound_key_len(indexes, value_lens, i, buf_len) ==
    IF i > Len(indexes)
    THEN Ok(buf_len)
    ELSE IF indexes[i] + 1 > Len(value_lens)
         THEN Err(NoPkIndexValue(indexes[i], Len(value_lens)))
         ELSE LET next_val == value_lens[indexes[i] + 1] IN
              IF next_val = None
              THEN compound_key_len(indexes, value_lens, i + 1, buf_len)
              ELSE IF next_val[1] > U16Max
                   THEN Err(ValueTooLong(next_val[1]))
                   ELSE compound_key_len(indexes, value_lens, i + 1,
                                         buf_len + 2 + next_val[1] + 1)

compute_partition_key_len_always_compound(indexes, value_lens) ==
    compound_key_len(indexes, value_lens, 1, 0)

\* PreparedStatement::compute_partition_key on the values' lengths: the error
\* it returns, or the length of the key
compute_partition_key_len(indexes, value_lens) ==
    IF Len(indexes) = 1
    THEN IF indexes[1] + 1 > Len(value_lens)
         THEN Err(NoPkIndexValue(indexes[1], Len(value_lens)))
         ELSE LET v == value_lens[indexes[1] + 1] IN
              Ok(IF v # None THEN v[1] ELSE 0)
    ELSE compound_key_len(indexes, value_lens, 1, 0)

TokenStart(indexes, value_lens) ==
    /\ tk_indexes = indexes
    /\ tk_value_lens = value_lens
    /\ tk_pc = "start"
    /\ tk_key = Ok(0)
    /\ tk_token = Ok(murmur3_token(0))

TokenIdle == TokenStart(<<>>, <<>>)

\* calculate_token(stmt, values)
CalculateToken ==
    /\ tk_pc = "start"
    /\ tk_key' = compute_partition_key_len(tk_indexes, tk_value_lens)
    /\ tk_token' = calculate_token(compute_partition_key_len(tk_indexes, tk_value_lens))
    /\ tk_pc' = "done"
    /\ UNCHANGED <<tk_indexes, tk_value_lens>>
    /\ UNCHANGED nonTkVars

TokenNext == CalculateToken

\* ----------------------------------------------------------- specifications
ExtIdle == SessionIdle /\ PrepareIdle /\ QueryTextIdle /\ WriteTypeIdle /\ PartitionKeyIdle /\ KeyspaceIdle /\ ValuesIdle /\ TopologyIdle /\ StreamsIdle /\ DecodeIdle /\ TokenIdle

NonSessIdle == PolicyStart /\ RunIdle /\ PagingIdle /\ PrepareIdle /\ QueryTextIdle /\ WriteTypeIdle /\ PartitionKeyIdle /\ KeyspaceIdle /\ ValuesIdle /\ TopologyIdle /\ StreamsIdle /\ DecodeIdle /\ TokenIdle

NonPrepIdle == PolicyStart /\ RunIdle /\ PagingIdle /\ SessionIdle /\ QueryTextIdle /\ WriteTypeIdle /\ PartitionKeyIdle /\ KeyspaceIdle /\ ValuesIdle /\ TopologyIdle /\ StreamsIdle /\ DecodeIdle /\ TokenIdle

NonTextIdle == PolicyStart /\ RunIdle /\ PagingIdle /\ SessionIdle /\ PrepareIdle /\ WriteTypeIdle /\ PartitionKeyIdle /\ KeyspaceIdle /\ ValuesIdle /\ TopologyIdle /\ StreamsIdle /\ DecodeIdle /\ TokenIdle

NonWtIdle == PolicyStart /\ RunIdle /\ PagingIdle /\ SessionIdle /\ PrepareIdle /\ QueryTextIdle /\ PartitionKeyIdle /\ KeyspaceIdle /\ ValuesIdle /\ TopologyIdle /\ StreamsIdle /\ DecodeIdle /\ TokenIdle

NonPkIdle == PolicyStart /\ RunIdle /\ PagingIdle /\ SessionIdle /\ PrepareIdle /\ QueryTextIdle /\ WriteTypeIdle /\ KeyspaceIdle /\ ValuesIdle /\ TopologyIdle /\ StreamsIdle /\ DecodeIdle /\ TokenIdle

NonKsIdle == PolicyStart /\ RunIdle /\ PagingIdle /\ SessionIdle /\ PrepareIdle /\ QueryTextIdle /\ WriteTypeIdle /\ PartitionKeyIdle /\ ValuesIdle /\ TopologyIdle /\ StreamsIdle /\ DecodeIdle /\ TokenIdle

NonValIdle == PolicyStart /\ RunIdle /\ PagingIdle /\ SessionIdle /\ PrepareIdle /\ QueryTextIdle /\ WriteTypeIdle /\ PartitionKeyIdle /\ KeyspaceIdle /\ TopologyIdle /\ StreamsIdle /\ DecodeIdle /\ TokenIdle

NonTopoIdle == PolicyStart /\ RunIdle /\ PagingIdle /\ SessionIdle /\ PrepareIdle /\ QueryTextIdle /\ WriteTypeIdle /\ PartitionKeyIdle /\ KeyspaceIdle /\ ValuesIdle /\ StreamsIdle /\ DecodeIdle /\ TokenIdle

NonStrIdle == PolicyStart /\ RunIdle /\ PagingIdle /\ SessionIdle /\ PrepareIdle /\ QueryTextIdle /\ WriteTypeIdle /\ PartitionKeyIdle /\ KeyspaceIdle /\ ValuesIdle /\ TopologyIdle /\ DecodeIdle /\ TokenIdle

NonDecIdle == PolicyStart /\ RunIdle /\ PagingIdle /\ SessionIdle /\ PrepareIdle /\ QueryTextIdle /\ WriteTypeIdle /\ PartitionKeyIdle /\ KeyspaceIdle /\ ValuesIdle /\ TopologyIdle /\ StreamsIdle /\ TokenIdle

NonTkIdle == PolicyStart /\ RunIdle /\ PagingIdle /\ SessionIdle /\ PrepareIdle /\ QueryTextIdle /\ WriteTypeIdle /\ PartitionKeyIdle /\ KeyspaceIdle /\ ValuesIdle /\ TopologyIdle /\ StreamsIdle /\ DecodeIdle

PolicyInit == PolicyStart /\ RunIdle /\ PagingIdle /\ ExtIdle

SpecPolicy == PolicyInit /\ [][PolicyNext]_vars

RunInit ==
    /\ PolicyStart
    /\ PagingIdle
    /\ ExtIdle
    /\ \E plan \in QueryPlans, idempotent \in BOOLEAN, policy \in RetryPolicies :
          RunStart(plan, idempotent, policy)

SpecRun == RunInit /\ [][RunNext]_vars

PagingInit ==
    /\ PolicyStart
    /\ RunIdle
    /\ ExtIdle
    /\ \E pages \in ResultSets, plan \in PagingPlans, idempotent \in BOOLEAN,
          policy \in RetryPolicies :
          PagingStart(pages, plan, idempotent, policy)

SpecPaging == PagingInit /\ [][PagingNext]_vars

\* the state a run_query call on an empty plan has returned in
RunReturned ==
    /\ rq_pc = "done"
    /\ query_plan = <<>>
    /\ plan_pos = 0
    /\ rq_retry_policy = DefaultRetryPolicy_new
    /\ query_is_idempotent = FALSE
    /\ last_error = EmptyPlanError
    /\ rq_result = Err(EmptyPlanError)
    /\ rq_trace = <<>>
    /\ metrics = [total_nonpaged |-> 0, failed_nonpaged |-> 0]

\* the state a RowIterator on an empty plan has ended in
PagingReturned ==
    /\ result_pages = <<<<>>>>
    /\ pw_pc = "done"
    /\ pw_plan = <<>>
    /\ pw_pos = 0
    /\ pw_retry_policy = DefaultRetryPolicy_new
    /\ retry_policy_untouched = DefaultRetryPolicy_new
    /\ query_idempotence = FALSE
    /\ paging_state = NoPagingState
    /\ pw_last_error = EmptyPlanError
    /\ pw_rows = <<>>
    /\ chan = <<>>
    /\ sender_alive = FALSE
    /\ rx = "ended"
    /\ current_page = <<>>
    /\ current_row_idx = 0
    /\ yielded = <<>>
    /\ n_page_requests = 0
    /\ last_request = NoRequest
    /\ pages_fetched = 0
    /\ pages_consumed = 0
    /\ dont_retry_seen = FALSE
    /\ send_failed = FALSE
    /\ any_failure = TRUE
    /\ last_outcome = NoOutcome

\* result sets of pages without rows
EmptyPageSets == {pages \in ResultSets : \A k \in 1..Len(pages) : pages[k] = <<>>}

\* one Session on which either a run_query call or a paging iterator (over pages
\* without rows) runs
AcquireInit ==
    /\ PolicyStart
    /\ ExtIdle
    /\ \/ /\ PagingReturned
          /\ \E plan \in QueryPlans, idempotent \in BOOLEAN, policy \in RetryPolicies :
                RunStart(plan, idempotent, policy)
       \/ /\ RunReturned
          /\ \E pages \in EmptyPageSets, plan \in PagingPlans, idempotent \in BOOLEAN,
                policy \in RetryPolicies :
                PagingStart(pages, plan, idempotent, policy)

SpecAcquire == AcquireInit /\ [][RunNext \/ PagingNext]_vars

\* one RowIterator whose worker has a plan of at most one node
IteratorInit ==
    /\ PolicyStart
    /\ RunIdle
    /\ ExtIdle
    /\ \E pages \in ResultSets, plan \in {Rotation(n, 0) : n \in 0..1},
          idempotent \in BOOLEAN, policy \in RetryPolicies :
          PagingStart(pages, plan, idempotent, policy)

SpecIterator == IteratorInit /\ [][PagingNext]_vars

SessionInit == NonSessIdle /\ \E policy \in RetryPolicies : SessionStart(policy)

SpecSession == SessionInit /\ [][SessionNext]_vars

PrepareInit == NonPrepIdle /\ PrepareStart

SpecPrepare == PrepareInit /\ [][PrepareNext]_vars

QueryTextInit == NonTextIdle /\ \E text \in QueryTexts : QueryTextStart(text)

SpecQueryText == QueryTextInit /\ [][QueryTextNext]_vars

WriteTypeInit ==
    NonWtIdle /\ \E s1 \in WriteTypeStrs, s2 \in WriteTypeStrs : WriteTypeStart(<<s1, s2>>)

SpecWriteType == WriteTypeInit /\ [][WriteTypeNext]_vars

PartitionKeyInit ==
    NonPkIdle /\ \E indexes \in PkIndexLists, values \in BoundValueLists :
                    PartitionKeyStart(indexes, values)

SpecPartitionKey == PartitionKeyInit /\ [][PartitionKeyNext]_vars

KeyspaceInit == NonKsIdle /\ KeyspaceStart

SpecKeyspace == KeyspaceInit /\ [][KeyspaceNext]_vars

ValuesInit == NonValIdle /\ ValuesStart

SpecValues == ValuesInit /\ [][ValuesNext]_vars

TopologyInit == NonTopoIdle /\ \E snapshot \in Snapshots : TopologyStart(snapshot)

SpecTopology == TopologyInit /\ [][TopologyNext]_vars

StreamsInit == NonStrIdle /\ StreamsStart

SpecStreams == StreamsInit /\ [][StreamsNext]_vars

DecodeInit == NonDecIdle /\ \E body \in SentBodies : DecodeStart(body)

SpecDecode == DecodeInit /\ [][DecodeNext]_vars

TokenInit ==
    NonTkIdle /\ \E indexes \in PkIndexLists, value_lens \in ValueLenLists :
                    TokenStart(indexes, value_lens)

SpecToken == TokenInit /\ [][TokenNext]_vars

\* ---------------------------------------------------- claims on SpecPolicy
HasAsked == n_decisions > 0

\* C8: for one DefaultRetryPolicy instance the first Unavailable decided on is
\* answered RetryNextNode and every later Unavailable DontRetry, whatever the
\* idempotency flag and whatever other errors were decided in between.
C8_FirstUnavailableOnly ==
    (HasAsked /\ asked.error.kind = "Unavailable") =>
        answer = (IF n_unavailable = 1 THEN RetryNextNode ELSE DontRetry)

\* a second Unavailable, on an idempotent statement, after another error in between
C8_Witness ==
    /\ HasAsked
    /\ asked.error.kind = "Unavailable"
    /\ asked.is_idempotent
    /\ n_unavailable = 2
    /\ n_decisions > n_unavailable
    /\ answer = DontRetry

ReadTimeoutRetryable(e) == e.received >= e.required /\ e.data_present

\* ReadTimeout retries the instance had granted before the last decision
RtGrantedBefore ==
    IF HasAsked /\ asked.error.kind = "ReadTimeout" /\ answer = RetrySameNode
    THEN n_rt_granted - 1 ELSE n_rt_granted

\* C9: a ReadTimeout is answered RetrySameNode exactly when received >= required,
\* data_present holds and the instance has granted no ReadTimeout retry before;
\* otherwise DontRetry; so at most one ReadTimeout retry is granted per instance.
C9_ReadTimeoutOnce ==
    /\ n_rt_granted <= 1
    /\ (HasAsked /\ asked.error.kind = "ReadTimeout") =>
          answer = (IF ReadTimeoutRetryable(asked.error) /\ RtGrantedBefore = 0
                    THEN RetrySameNode ELSE DontRetry)

\* a retryable ReadTimeout refused because one retry was granted before
C9_Witness ==
    /\ HasAsked
    /\ asked.error.kind = "ReadTimeout"
    /\ ReadTimeoutRetryable(asked.error)
    /\ RtGrantedBefore = 1
    /\ answer = DontRetry

C12_IsBootstrapping ==
    (HasAsked /\ asked.error.kind = "IsBootstrapping") => answer = RetryNextNode

\* IsBootstrapping on a non-idempotent statement, as the last of MaxDecisions
\* decisions, after both once-only retries were used up
C12_Witness ==
    /\ HasAsked
    /\ n_decisions = MaxDecisions
    /\ asked.error.kind = "IsBootstrapping"
    /\ ~asked.is_idempotent
    /\ retry_policy.was_unavailable_retry
    /\ retry_policy.was_read_timeout_retry
    /\ answer = RetryNextNode

\* C31: a DefaultRetryPolicy instance answers RetrySameNode to at most one
\* WriteTimeout over its lifetime, and only for a BatchLog write; every later
\* WriteTimeout gets DontRetry.
C31_WriteTimeoutRetriedOnce ==
    /\ n_wt_granted <= 1
    /\ (HasAsked /\ asked.error.kind = "WriteTimeout" /\ answer = RetrySameNode) =>
          asked.error.write_type = "BatchLog"

\* C40: a decision sets was_unavailable_retry only when it answers an
\* Unavailable with RetryNextNode and was_read_timeout_retry only when it
\* answers a ReadTimeout with RetrySameNode; no decision resets a flag, and
\* decisions on other errors and refused retries leave both flags unchanged.
C40_FlagsIndependentMonotonic ==
    [][ /\ retry_policy.was_unavailable_retry => retry_policy'.was_unavailable_retry
        /\ retry_policy.was_read_timeout_retry => retry_policy'.was_read_timeout_retry
        /\ retry_policy'.was_unavailable_retry # retry_policy.was_unavailable_retry =>
              asked'.error.kind = "Unavailable" /\ answer' = RetryNextNode
        /\ retry_policy'.was_read_timeout_retry # retry_policy.was_read_timeout_retry =>
              asked'.error.kind = "ReadTimeout" /\ answer' = RetrySameNode
        /\ retry_policy'.impl = retry_policy.impl ]_vars

\* after both once-only retries were granted, a refused Unavailable leaves both
\* flags set
C40_Witness ==
    /\ HasAsked
    /\ n_decisions > 2
    /\ asked.error.kind = "Unavailable"
    /\ answer = DontRetry
    /\ n_rt_granted = 1
    /\ retry_policy.was_unavailable_retry
    /\ retry_policy.was_read_timeout_retry

\* only the ReadTimeout retry was granted, after other errors: one flag is set
\* and the other is not
C40_WitnessOneFlag ==
    /\ HasAsked
    /\ n_decisions = MaxDecisions
    /\ n_unavailable = 0
    /\ n_rt_granted = 1
    /\ n_wt_granted = 1
    /\ retry_policy.was_read_timeout_retry
    /\ ~retry_policy.was_unavailable_retry

\* ------------------------------------------------------- claims on SpecRun
IsRequest(s) == s.step = "query"

\* the requests run_query has sent, in order
Requests == SelectSeq(rq_trace, IsRequest)

Failed(rq_step) == ~rq_step.res.ok

RunFailed == rq_pc = "done" /\ ~rq_result.ok

DefaultPolicyRun == rq_retry_policy.impl = "Default"

\* the run began: connection on plan[1] acquired, request on it answered Unavailable
UnavailableOnA ==
    /\ DefaultPolicyRun
    /\ Len(rq_trace) >= 2
    /\ rq_trace[1] = ConnStep(1, Ok("connection"))
    /\ rq_trace[2] = QueryStep(1, Err(Unavailable), RetryNextNode)

\* ... and then the connection on plan[2] was acquired and answered Unavailable too
UnavailableOnAThenB ==
    /\ UnavailableOnA
    /\ Len(rq_trace) >= 4
    /\ rq_trace[3].res.ok
    /\ rq_trace[4].res = Err(Unavailable)

\* C6: with a fresh default policy and a plan [A, B, ...], after Unavailable on A
\* the runner turns to B and sends the request there; when B answers Unavailable
\* too the runner returns that error, having sent exactly two requests.
C6_UnavailableTwice ==
    /\ (DefaultPolicyRun /\ Len(rq_trace) >= 2 /\ rq_trace[1].res.ok
            /\ rq_trace[2].res = Err(Unavailable))
          => UnavailableOnA
    /\ (UnavailableOnA /\ Len(query_plan) >= 2) =>
          /\ Len(rq_trace) = 2 => (rq_pc = "choose_connection" /\ plan_pos = 2)
          /\ Len(rq_trace) >= 3 => (rq_trace[3].step = "conn" /\ rq_trace[3].pos = 2)
          /\ (Len(rq_trace) >= 4 /\ rq_trace[3].res.ok) =>
                (IsRequest(rq_trace[4]) /\ rq_trace[4].node = query_plan[2])
    /\ UnavailableOnAThenB =>
          /\ rq_pc = "done"
          /\ rq_result = Err(Unavailable)
          /\ rq_trace[4].decision = DontRetry
          /\ Len(Requests) = 2
          /\ Len(rq_trace) = 4

\* Unavailable on A, then on B, with a third node left in the plan
C6_Witness == UnavailableOnAThenB /\ Len(query_plan) > 2 /\ rq_pc = "done"

\* C7: when run_query fails it returns the error of the most recent failed step
\* (connection acquisition or request), on DontRetry and on plan exhaustion alike;
\* it returns 'Empty query plan' exactly when the plan yielded no node.
C7_LastErrorReturned ==
    RunFailed =>
        /\ (rq_result.err = EmptyPlanError) <=> (query_plan = <<>>)
        /\ query_plan # <<>> =>
              /\ rq_trace # <<>>
              /\ Failed(rq_trace[Len(rq_trace)])
              /\ rq_result.err = rq_trace[Len(rq_trace)].res.err

\* plan exhausted by a connection failure that follows a request failed otherwise
C7_Witness ==
    /\ RunFailed
    /\ Len(rq_trace) >= 3
    /\ rq_trace[Len(rq_trace)].step = "conn"
    /\ rq_result.err = IOError
    /\ \E i \in 1..Len(rq_trace) :
          IsRequest(rq_trace[i]) /\ Failed(rq_trace[i]) /\ rq_trace[i].res.err # IOError

BasicFailure(rq_step) ==
    IsRequest(rq_step) /\ Failed(rq_step) /\ rq_step.res.err.kind \in BasicErrorKinds

\* every step so far: connection acquired, request failed with a basic error
OnlyBasicFailures ==
    \A i \in 1..Len(rq_trace) :
        IF rq_trace[i].step = "conn" THEN rq_trace[i].res.ok ELSE BasicFailure(rq_trace[i])

\* C10: IOError, Overloaded, ServerError and TruncateError get RetryNextNode from the
\* default policy when the statement is idempotent and DontRetry when it is not,
\* every time; so an idempotent query that keeps failing this way sends one
\* request to every node of the plan, in plan order.
C10_BasicErrors ==
    DefaultPolicyRun =>
        /\ \A i \in 1..Len(rq_trace) :
              BasicFailure(rq_trace[i]) =>
                  rq_trace[i].decision =
                      (IF query_is_idempotent THEN RetryNextNode ELSE DontRetry)
        /\ (rq_pc = "done" /\ query_is_idempotent /\ OnlyBasicFailures) =>
              /\ Len(Requests) = Len(query_plan)
              /\ \A i \in 1..Len(Requests) : Requests[i].node = query_plan[i]

\* an idempotent query failed with the same basic error on every node of a plan
\* of three or more nodes
C10_Witness ==
    /\ DefaultPolicyRun
    /\ rq_pc = "done"
    /\ query_is_idempotent
    /\ OnlyBasicFailures
    /\ Len(query_plan) > 2
    /\ Len(Requests) = Len(query_plan)
    /\ \A i \in 1..Len(Requests) : Requests[i].res = Err(PlainError("Overloaded"))

\* the error kinds the retry table names
TableErrorKinds ==
    BasicErrorKinds \cup {"Unavailable", "ReadTimeout", "WriteTimeout", "IsBootstrapping"}

OtherFailure(rq_step) ==
    IsRequest(rq_step) /\ Failed(rq_step) /\ rq_step.res.err.kind \notin TableErrorKinds

\* C13: an error the retry table does not name (Unprepared, SyntaxError, Invalid,
\* ReadFailure, WriteFailure, BadQuery, ProtocolError, ...) gets DontRetry from the
\* default policy whatever the idempotency flag, and run_query returns it at once:
\* after exactly one request when it answers the first one.
C13_OtherErrorsPropagate ==
    DefaultPolicyRun =>
        \A i \in 1..Len(rq_trace) :
            OtherFailure(rq_trace[i]) =>
                /\ rq_trace[i].decision = DontRetry
                /\ i = Len(rq_trace)
                /\ rq_pc = "done"
                /\ rq_result = rq_trace[i].res
                /\ (\A j \in 1..(i - 1) : rq_trace[j].res.ok) => Len(Requests) = 1

\* Unprepared on the first request of an idempotent statement, nodes left in the plan
C13_Witness ==
    /\ DefaultPolicyRun
    /\ query_is_idempotent
    /\ Len(query_plan) > 1
    /\ Len(rq_trace) = 2
    /\ rq_trace[2].res = Err(PlainError("Unprepared"))
    /\ rq_result = Err(PlainError("Unprepared"))
    /\ Len(Requests) = 1

FallthroughPolicyRun == rq_retry_policy.impl = "Fallthrough"

\* C28: FallthroughRetryPolicy answers DontRetry to every error, so a query run
\* with it sends at most one request and the error of that request is what the
\* caller gets, unchanged.
C28_FallthroughNeverRetries ==
    FallthroughPolicyRun =>
        /\ Len(Requests) <= 1
        /\ \A i \in 1..Len(rq_trace) :
              (IsRequest(rq_trace[i]) /\ Failed(rq_trace[i])) =>
                  /\ rq_trace[i].decision = DontRetry
                  /\ i = Len(rq_trace)
                  /\ rq_pc = "done"
                  /\ rq_result = rq_trace[i].res

\* an idempotent query, IOError on the only request, sent to the second node
\* of three after the connection to the first failed
C28_Witness ==
    /\ FallthroughPolicyRun
    /\ query_is_idempotent
    /\ Len(query_plan) > 2
    /\ Len(rq_trace) = 3
    /\ ~rq_trace[1].res.ok
    /\ IsRequest(rq_trace[3])
    /\ rq_trace[3].pos = 2
    /\ rq_result = Err(IOError)
    /\ Len(Requests) = 1

IsAcquisition(s) == s.step = "conn"

\* C17: run_query acquires a connection once per node of the plan, and a
\* RetrySameNode decision is followed by the request on that same node without
\* acquiring a connection again, so a same-node retry never fails or changes
\* node because of connection acquisition.
C17_ConnectionOncePerNode ==
    /\ \A i, j \in 1..Len(rq_trace) :
            (IsAcquisition(rq_trace[i]) /\ IsAcquisition(rq_trace[j])
                /\ rq_trace[i].pos = rq_trace[j].pos) => i = j
    /\ \A i \in 1..(Len(rq_trace) - 1) :
            (IsRequest(rq_trace[i]) /\ rq_trace[i].decision = RetrySameNode) =>
                /\ IsRequest(rq_trace[i + 1])
                /\ rq_trace[i + 1].pos = rq_trace[i].pos

\* C33: with the default policy every retry of run_query makes progress towards
\* returning: it moves to a later plan position or uses up one of the policy's
\* once-only retries, so no sequence of responses keeps the runner sending
\* requests forever.
C33_EveryRetryMakesProgress ==
    [][(DefaultPolicyRun /\ rq_pc = "do_query" /\ rq_pc' = "choose_connection") =>
            (plan_pos' > plan_pos \/ rq_retry_policy' # rq_retry_policy)]_vars

\* C34: the requests of run_query go to nodes in plan order: the plan position
\* never decreases from one request to the next, and two requests go to the
\* same position only when the first was answered RetrySameNode.
C34_RequestsFollowPlan ==
    /\ \A i \in 1..Len(Requests) :
          /\ Requests[i].pos \in 1..Len(query_plan)
          /\ Requests[i].node = query_plan[Requests[i].pos]
    /\ \A i \in 1..(Len(Requests) - 1) :
          /\ Requests[i].pos <= Requests[i + 1].pos
          /\ Requests[i].pos = Requests[i + 1].pos => Requests[i].decision = RetrySameNode

\* a retry on the first node, then a request on the third after the second
\* node gave no connection
C34_Witness ==
    /\ Len(Requests) = 3
    /\ Requests[1].pos = 1
    /\ Requests[2].pos = 1
    /\ Requests[2].decision = RetryNextNode
    /\ Requests[3].pos = 3
    /\ \E i \in 1..Len(rq_trace) : IsAcquisition(rq_trace[i]) /\ rq_trace[i].pos = 2

\* ---------------------------------------------------- claims on SpecAcquire
\* run_query has just failed to get a connection on the node at plan_pos
RunConnectionFailed ==
    /\ rq_pc = "choose_connection"
    /\ Len(rq_trace') = Len(rq_trace) + 1
    /\ ~rq_trace'[Len(rq_trace')].res.ok

\* the paging worker has just failed to get a connection on the node at pw_pos
WorkerConnectionFailed ==
    /\ pw_pc = "get_connection"
    /\ pw_pc' # "issue"
    /\ <<workerVars, sender_alive>>' # <<workerVars, sender_alive>>

\* C35: a failed connection acquisition is recorded as the last error and the
\* runner (run_query or the paging worker) goes on to the next node of the plan,
\* or returns when there is none; the retry policy is not asked and keeps its
\* state, whatever the policy and the idempotency flag, and run_query leaves
\* both query counters as they were.
C35_ConnectionFailureSkipsPolicy ==
    [][ /\ RunConnectionFailed =>
              /\ last_error' = rq_trace'[Len(rq_trace')].res.err
              /\ rq_trace'[Len(rq_trace')].decision = "-"
              /\ rq_retry_policy' = rq_retry_policy
              /\ metrics' = metrics
              /\ IF plan_pos < Len(query_plan)
                 THEN plan_pos' = plan_pos + 1 /\ rq_pc' = "choose_connection"
                 ELSE rq_pc' = "done" /\ rq_result' = Err(last_error')
        /\ WorkerConnectionFailed =>
              /\ pw_last_error' \in ConnectionErrors
              /\ pw_retry_policy' = pw_retry_policy
              /\ last_outcome' = last_outcome
              /\ dont_retry_seen' = dont_retry_seen
              /\ n_page_requests' = n_page_requests
              /\ IF pw_pos < Len(pw_plan)
                 THEN pw_pos' = pw_pos + 1 /\ pw_pc' = "get_connection"
                 ELSE pw_pc' = "done" ]_vars

\* run_query: after an Unavailable answer on the first node no connection to the
\* second was got; the runner is at the third with the policy's flag still set
\* and one query counted
C35_Witness ==
    /\ DefaultPolicyRun
    /\ ~query_is_idempotent
    /\ Len(rq_trace) = 3
    /\ rq_trace[2].res = Err(Unavailable)
    /\ IsAcquisition(rq_trace[3]) /\ ~rq_trace[3].res.ok
    /\ rq_pc = "choose_connection"
    /\ plan_pos = 3
    /\ last_error = IOError
    /\ rq_retry_policy.was_unavailable_retry
    /\ ~rq_retry_policy.was_read_timeout_retry
    /\ metrics = [total_nonpaged |-> 1, failed_nonpaged |-> 1]

\* run_query with FallthroughRetryPolicy on a statement that is not idempotent:
\* no connection to the first node, the runner is at the second
C35_WitnessFallthrough ==
    /\ FallthroughPolicyRun
    /\ ~query_is_idempotent
    /\ Len(rq_trace) = 1
    /\ ~rq_trace[1].res.ok
    /\ rq_pc = "choose_connection"
    /\ plan_pos = 2
    /\ metrics = [total_nonpaged |-> 0, failed_nonpaged |-> 0]

\* the paging worker: Unavailable on the first node, no connection to the second,
\* the worker is at the third with the policy's flag still set
C35_WitnessWorker ==
    /\ pw_pc = "get_connection"
    /\ pw_pos = 3
    /\ pw_last_error = IOError
    /\ last_outcome.kind = "Unavailable"
    /\ last_outcome.decision = RetryNextNode
    /\ n_page_requests = 1
    /\ pw_retry_policy.was_unavailable_retry

\* ---------------------------------------------------- claims on SpecPaging
RECURSIVE Flatten(_)
Flatten(pages) == IF pages = <<>> THEN <<>> ELSE Head(pages) \o Flatten(Tail(pages))

\* the N rows of the result set, in server order, as the items the stream yields
AllRows == [i \in 1..Len(Flatten(result_pages)) |-> Ok(Flatten(result_pages)[i])]

IsPrefix(a, b) == Len(a) <= Len(b) /\ \A i \in 1..Len(a) : a[i] = b[i]

\* work has left its loop over the plan and returned; in this code that is the
\* only way work returns before the plan is exhausted or the policy refuses
WorkerGaveUp == pw_pc = "done"

\* C1: with no failure, a result set of N rows in K pages is yielded as exactly
\* those N rows in server order, the stream then ends, and the worker sends
\* exactly K page requests.
C1_PagingTerminates ==
    ~any_failure =>
        /\ n_page_requests <= Len(result_pages)
        /\ IsPrefix(yielded, AllRows)
        /\ rx = "ended" => yielded = AllRows

\* C2: once the retry policy has answered DontRetry, the worker sends no further
\* page request, on this node or on a later node of the plan.
C2_DontRetryTerminates == n_page_requests > 0 => ~last_request.after_dont_retry

\* C3: when the worker gives up, the consumer receives the last error as an Err
\* item before the stream ends; the stream never ends silently.
C3_ErrorSurfaced ==
    (WorkerGaveUp /\ rx = "ended") =>
        (yielded # <<>> /\ yielded[Len(yielded)] = Err(pw_last_error))

C5_WorkerStopsAfterDrop == n_page_requests > 0 => ~last_request.after_send_failure

\* the page of the result set a request carrying paging state ps asks for
PageAsked(ps) == IF ps = NoPagingState THEN 1 ELSE ps + 1

\* C15 (paging state only): a retried page request carries the paging state of
\* the failed request, the one returned with the last page fetched.
C15_SamePagingState ==
    (n_page_requests > 0 /\ last_request.is_retry) =>
        /\ last_request.paging_state = last_request.failed_paging_state
        /\ last_request.paging_state = last_request.returned_state

\* C15: when a page request fails and is retried (RetrySameNode or RetryNextNode),
\* the retried request carries the paging state of the failed request, which is
\* the one returned with the last page fetched (none before the first page), and
\* it asks for the page after the pages already fetched: no page handed to the
\* consumer is requested again and none is skipped.
C15_RetryResumesPage ==
    (n_page_requests > 0 /\ last_request.is_retry) =>
        /\ last_request.paging_state = last_request.failed_paging_state
        /\ last_request.paging_state = last_request.returned_state
        /\ PageAsked(last_request.paging_state) = last_request.fetched + 1

DefaultPolicyPaging == retry_policy_untouched.impl = "Default"

\* C16: after every page fetched the worker's retry policy is a fresh copy of the
\* untouched template, so with the default policy the first Unavailable since the
\* last page fetched gets RetryNextNode, whatever was retried on earlier pages.
C16_PolicyResetPerPage ==
    /\ retry_policy_untouched \in RetryPolicies
    /\ (pw_pc = "issue" /\ last_outcome.kind = "Rows") =>
            pw_retry_policy = retry_policy_untouched
    /\ (DefaultPolicyPaging /\ last_outcome.kind = "Unavailable"
            /\ last_outcome.unavailable_on_page = 1) =>
            last_outcome.decision = RetryNextNode

\* Unavailable before the first page and Unavailable again on the second page
C16_Witness ==
    /\ DefaultPolicyPaging
    /\ pages_fetched = 1
    /\ last_outcome.kind = "Unavailable"
    /\ last_outcome.unavailable_before_page = 1
    /\ last_outcome.unavailable_on_page = 1
    /\ last_outcome.returned_state # NoPagingState
    /\ last_outcome.decision = RetryNextNode

\* C36: the paging worker walks one query plan over all pages: its plan
\* position only moves forward, one node at a time, also after the retry policy
\* was reset for a new page; page requests go to the current position, never to
\* one left behind; and the worker returns when a next node is needed after the
\* last one, sending nothing afterwards.
C36_OnePlanAcrossPages ==
    [][ /\ pw_plan' = pw_plan
        /\ pw_pos' \in {pw_pos, pw_pos + 1}
        /\ pw_pos' <= Len(pw_plan)
        /\ n_page_requests' > n_page_requests =>
              /\ last_request'.pos = pw_pos
              /\ last_request'.pos >= last_request.pos
        /\ (pw_pc # "done" /\ pw_pc' = "done") =>
              (pw_pos = Len(pw_plan) /\ ~sender_alive')
        /\ pw_pc = "done" => (workerVars' = workerVars /\ n_page_requests' = n_page_requests)
      ]_vars

\* page 1 was fetched on the first node (the policy was reset after it), the
\* request for page 2 failed there, and page 2 was fetched on the second node
C36_Witness ==
    /\ Len(pw_plan) = 3
    /\ n_page_requests = 3
    /\ pages_fetched = 2
    /\ last_request.pos = 2
    /\ last_request.fetched = 1
    /\ pw_pos = 2
    /\ pw_retry_policy = retry_policy_untouched

\* the worker gave up after the last node of its plan, pages having been fetched
C36_WitnessGaveUp ==
    /\ pw_pc = "done"
    /\ Len(pw_plan) = 2
    /\ pw_pos = 2
    /\ pages_fetched > 0
    /\ last_request.pos = 2

\* pages fetched and not handed to the consumer: buffered in the channel, or held
\* by the worker in a send that has not completed
PagesBuffered == Len(chan)

PagesHeld == IF pw_pc = "send" THEN 1 ELSE 0

\* C37: at most one page is buffered in the channel and at most one further
\* fetched page is held by the worker waiting to be sent, so at most two fetched
\* pages wait for the consumer; while the RowIterator exists these are exactly
\* the pages fetched and not yet received by it.
C37_BoundedReadAhead ==
    /\ PagesBuffered <= 1
    /\ PagesHeld <= 1
    /\ PagesBuffered + PagesHeld <= 2
    /\ \A i \in 1..Len(chan) : chan[i].ok
    /\ rx # "dropped" => pages_fetched - pages_consumed = PagesBuffered + PagesHeld

\* one page is in the channel and the next one is held by the blocked worker
C37_Witness ==
    /\ rx = "open"
    /\ PagesBuffered = 1
    /\ PagesHeld = 1
    /\ pages_fetched = 2
    /\ pages_consumed = 0

\* -------------------------------------------------- claims on SpecIterator
\* the k-th page the worker fetches: the server starts again at page 1 when it
\* is asked without a paging state
FetchedPage(k) == result_pages[((k - 1) % Len(result_pages)) + 1]

\* the rows poll_next has to have yielded: all rows of the pages received before
\* the current one and the first current_row_idx rows of the current page
RowsDue ==
    IF pages_consumed = 0
    THEN <<>>
    ELSE Flatten([k \in 1..(pages_consumed - 1) |-> FetchedPage(k)])
            \o SubSeq(FetchedPage(pages_consumed), 1, current_row_idx)

\* C39: the RowIterator yields None only when the channel is closed and
\* drained; a page without rows yields nothing and leaves the stream open; the
\* rows of a page are yielded once each, in index order, and the next page is
\* taken from the channel only after the last of them.
C39_RowIteratorOrder ==
    /\ rx = "ended" => (~sender_alive /\ chan = <<>> /\ is_current_page_exhausted)
    /\ \A i \in 1..Len(yielded) : yielded[i].ok
    /\ [i \in 1..Len(yielded) |-> yielded[i].value] = RowsDue
    /\ current_row_idx <= Len(current_page)
    /\ pages_consumed > 0 => Len(current_page) = Len(FetchedPage(pages_consumed))

\* a page without rows was received and then both rows of the next page were
\* yielded, the stream still open
C39_Witness ==
    /\ rx = "open"
    /\ pages_consumed = 2
    /\ result_pages[1] = <<>>
    /\ Len(yielded) = 2
    /\ yielded[1] = Ok(Row(2, 1))
    /\ yielded[2] = Ok(Row(2, 2))

\* the stream ended after two pages of rows, each row yielded once
C39_WitnessEnded ==
    /\ rx = "ended"
    /\ pages_consumed = 2
    /\ Len(yielded) = 4

\* --------------------------------------------------- claims on SpecSession
\* the decisions a policy instance of its own gives on errors, asked in order
RECURSIVE DecisionsAlone(_, _, _)
DecisionsAlone(policy, errors, is_idempotent) ==
    IF errors = <<>>
    THEN <<>>
    ELSE LET d == decide_should_retry(policy, QueryInfo(Head(errors), is_idempotent)) IN
         <<d.decision>> \o DecisionsAlone(d.self, Tail(errors), is_idempotent)

\* the policy the session was configured with
ConfiguredPolicy == [impl |-> policy_heap[SessionPolicyBox].impl,
                     was_unavailable_retry |-> FALSE, was_read_timeout_retry |-> FALSE]

\* the unused policy a call starts from: the statement's, else the session's
StartPolicy(call) ==
    IF call.statement_policy # None THEN call.statement_policy[1] ELSE ConfiguredPolicy

\* C14: retry-policy state is never shared between queries: every call decides
\* with a policy instance of its own, so the decisions a call gets are those an
\* unused policy gives on that call's errors alone, whatever other calls on the
\* Session consumed before it or concurrently, and Session.retry_policy itself
\* is never used up.
C14_PolicyStateNotShared ==
    /\ policy_heap[SessionPolicyBox] = ConfiguredPolicy
    /\ \A c \in Calls :
          /\ calls[c].pc # "idle" => \A o \in Calls \ {c} : calls[o].pc = "idle" \/ calls[o].box # calls[c].box
          /\ [i \in 1..Len(calls[c].log) |-> calls[c].log[i].decision]
                = DecisionsAlone(StartPolicy(calls[c]),
                                 [i \in 1..Len(calls[c].log) |-> calls[c].log[i].error],
                                 calls[c].is_idempotent)

\* two calls on the default session policy, interleaved: each gets its own
\* once-only retry on Unavailable
C14_Witness ==
    /\ \A c \in Calls :
          /\ calls[c].pc = "running"
          /\ calls[c].statement_policy = None
          /\ Len(calls[c].log) = 1
          /\ calls[c].log[1] = [error |-> Unavailable, decision |-> RetryNextNode]
    /\ calls[1].entry = "query"
    /\ calls[2].entry = "execute_iter"

\* --------------------------------------------------- claims on SpecPrepare
PrepareReturned == prepare_pc = "done" /\ answered # {}

\* two connections answered PREPARE with statements of different ids
SomeIdsDiffer ==
    \E c1, c2 \in PreparedOn : results[c1].value.id # results[c2].value.id

\* C18: when PREPARE succeeded on two or more connections and two of the ids
\* returned differ, prepare returns ProtocolError and never one of the differing
\* statements; a statement it returns carries the id every successful PREPARE
\* returned.
C18_IdsChecked ==
    PrepareReturned =>
        /\ SomeIdsDiffer => prepare_result = Err(IdsDifferError)
        /\ prepare_result.ok =>
              \A c \in PreparedOn : results[c].value.id = prepare_result.value.id

\* the differing ids are on the first and the last of three connections, a
\* failed PREPARE between them
C18_Witness ==
    /\ PrepareReturned
    /\ connections = 3
    /\ results[1].ok /\ ~results[2].ok /\ results[3].ok
    /\ results[1].value.id # results[3].value.id
    /\ prepare_result = Err(IdsDifferError)

\* C19: when prepare returns Ok the statement was prepared successfully on
\* every connection of the fan-out, so no later execute on one of them is
\* answered Unprepared.
C19_PreparedOnEveryConnection ==
    (prepare_pc = "done" /\ prepare_result.ok) =>
        /\ PreparedOn = 1..connections
        /\ last_execute.res.ok

\* C32: prepare returns Ok, with one of the statements prepared, when PREPARE
\* succeeded on at least one connection and all successful ids are equal,
\* whatever failed on the other connections; it returns the error of a PREPARE
\* only when PREPARE failed on every connection.
C32_OkIfAnyPrepared ==
    PrepareReturned =>
        /\ (PreparedOn # {} /\ ~SomeIdsDiffer) =>
              /\ prepare_result.ok
              /\ \E c \in PreparedOn : prepare_result = results[c]
        /\ (~prepare_result.ok /\ prepare_result # Err(IdsDifferError)) => PreparedOn = {}
        /\ PreparedOn = {} =>
              /\ ~prepare_result.ok
              /\ \E c \in 1..connections : prepare_result = results[c]

\* PREPARE succeeded on the first of three connections only
C32_Witness ==
    /\ PrepareReturned
    /\ connections = 3
    /\ results[1].ok /\ ~results[2].ok /\ ~results[3].ok
    /\ prepare_result = results[1]

\* PREPARE failed on all three connections
C32_WitnessAllFailed ==
    /\ PrepareReturned
    /\ connections = 3
    /\ PreparedOn = {}
    /\ results[1] # results[3]
    /\ ~prepare_result.ok

\* -------------------------------------------------- claims on SpecQueryText
\* texts of at least 4 characters that start with "use " in any ASCII case
StartsWithUse(text) ==
    /\ Len(text) >= 4
    /\ text[1] \in {"u", "U"}
    /\ text[2] \in {"s", "S"}
    /\ text[3] \in {"e", "E"}
    /\ text[4] = " "

\* C20: query redirects to use_keyspace, and calls run_query not at all, exactly
\* when the text has at least 4 bytes and its first 4 equal "use " ignoring
\* ASCII case; every other text, also one shorter than 4 bytes, goes to run_query.
C20_UseKeyspaceRouting ==
    query_route # "called" =>
        IF StartsWithUse(query_text)
        THEN query_route = "use_keyspace" /\ n_run_query = 0
        ELSE query_route = "run_query" /\ n_run_query = 1

\* "USe k" is redirected
C20_Witness ==
    /\ query_text = <<"U", "S", "e", " ", "k">>
    /\ query_route = "use_keyspace"
    /\ keyspace_name = <<"k">>
    /\ n_run_query = 0

\* "us" is run as a query
C20_WitnessShort ==
    /\ query_text = <<"u", "s">>
    /\ query_route = "run_query"

\* ------------------------------------------------- claims on SpecWriteType
\* the eight literals of the protocol and their variants
WriteTypeLiterals ==
    {<<"SIMPLE", "Simple">>, <<"BATCH", "Batch">>, <<"UNLOGGED_BATCH", "UnloggedBatch">>,
     <<"COUNTER", "Counter">>, <<"BATCH_LOG", "BatchLog">>, <<"CAS", "CAS">>,
     <<"VIEW", "View">>, <<"CDC", "CDC">>}

Parsed(i) == write_types[i] # NotParsed

\* C29: WriteType::from maps exactly the eight literals SIMPLE, BATCH,
\* UNLOGGED_BATCH, COUNTER, BATCH_LOG, CAS, VIEW, CDC to their variants,
\* case-sensitively, and every other string s to Other(s); distinct strings never
\* map to the same WriteType.
C29_WriteTypeFrom ==
    /\ \A i \in 1..2 :
          Parsed(i) =>
              /\ \A l \in WriteTypeLiterals :
                    (write_type_strs[i] = l[1]) <=> (write_types[i] = UnitWriteType(l[2]))
              /\ (\A l \in WriteTypeLiterals : write_type_strs[i] # l[1]) =>
                    write_types[i] = WriteTypeValue("Other", write_type_strs[i])
    /\ (Parsed(1) /\ Parsed(2) /\ write_type_strs[1] # write_type_strs[2]) =>
          write_types[1] # write_types[2]

\* "BATCH_LOG" and "batch_log" give BatchLog and Other("batch_log")
C29_Witness ==
    /\ write_type_strs = <<"BATCH_LOG", "batch_log">>
    /\ write_types = <<UnitWriteType("BatchLog"), WriteTypeValue("Other", "batch_log")>>

\* ---------------------------------------------- claims on SpecPartitionKey
\* every pk index names a bound value that is not null
PkValuesPresent ==
    \A i \in 1..Len(pk_indexes) :
        /\ pk_indexes[i] < Len(bound_values)
        /\ bound_values[pk_indexes[i] + 1] # None

PkValue(i) == bound_values[pk_indexes[i] + 1][1]

\* [u16 big-endian length][value bytes][0x00]
KeyComponent(v) == <<Len(v) \div 256, Len(v) % 256>> \o v \o <<0>>

\* the components of the pk values i.., in the order of pk_indexes
RECURSIVE KeyComponentsFrom(_)
KeyComponentsFrom(i) ==
    IF i > Len(pk_indexes) THEN <<>> ELSE KeyComponent(PkValue(i)) \o KeyComponentsFrom(i + 1)

\* C23: with exactly one pk index compute_partition_key returns the raw bytes of
\* that bound value, with no length prefix; otherwise it returns the
\* concatenation, in the order of pk_indexes as delivered, of
\* [u16 big-endian length][value bytes][0x00] for each pk value. For the values
\* [int 3, int 4], pk_indexes [0] gives [0,0,0,3] and pk_indexes [0,1] gives
\* [0,4,0,0,0,3,0,0,4,0,0,0,4,0].
C23_PartitionKeyFormat ==
    pk_pc = "done" =>
        /\ PkValuesPresent =>
              partition_key = Ok(IF Len(pk_indexes) = 1
                                 THEN PkValue(1) ELSE KeyComponentsFrom(1))
        /\ bound_values = <<Some(IntBytes(3)), Some(IntBytes(4))>> =>
              /\ pk_indexes = <<0>> => partition_key = Ok(<<0, 0, 0, 3>>)
              /\ pk_indexes = <<0, 1>> =>
                    partition_key = Ok(<<0, 4, 0, 0, 0, 3, 0, 0, 4, 0, 0, 0, 4, 0>>)

\* pk_indexes [1, 0] on [int 3, int 4]: the value of index 1 comes first
C23_Witness ==
    /\ pk_pc = "done"
    /\ bound_values = <<Some(IntBytes(3)), Some(IntBytes(4))>>
    /\ pk_indexes = <<1, 0>>
    /\ partition_key = Ok(<<0, 4, 0, 0, 0, 4, 0, 0, 4, 0, 0, 0, 3, 0>>)

\* one pk index: the raw bytes
C23_WitnessSingle ==
    /\ pk_pc = "done"
    /\ bound_values = <<Some(IntBytes(3)), Some(IntBytes(4))>>
    /\ pk_indexes = <<0>>
    /\ partition_key = Ok(<<0, 0, 0, 3>>)

\* -------------------------------------------------- claims on SpecKeyspace
\* the call failed in validation with the given BadKeyspaceName, having sent no USE
RejectedWith(call, variant, character) ==
    /\ call.pc = "done"
    /\ call.result = Err(BadKeyspaceName(variant, character))
    /\ call.answered = {}

\* C21: use_keyspace validates the name before any network I/O: an empty name
\* fails with Empty, a name of more than 48 characters with TooLong and, in
\* case-insensitive mode, a name with a character outside [A-Za-z0-9_] with
\* IllegalCharacter of that character; no USE is sent for such a call, and a
\* connection only ever uses a keyspace some call's USE set on it.
C21_NameValidatedFirst ==
    /\ \A u \in UseCalls :
          LET call == use_calls[u] IN
          call.pc # "idle" =>
              /\ call.name = <<>> => RejectedWith(call, "Empty", "")
              /\ Len(call.name) > MaxKeyspaceNameLen => RejectedWith(call, "TooLong", "")
              /\ (call.name = <<"b", "a", "d", "-", "n", "a", "m", "e">>
                    /\ ~call.case_sensitive) =>
                    RejectedWith(call, "IllegalCharacter", "-")
    /\ \A c \in KsConnections :
          \/ used_keyspace[c] = NoKeyspace /\ last_use_ok[c] = 0
          \/ \E u \in UseCalls :
                /\ c \in use_calls[u].succeeded
                /\ use_calls[u].result.ok \/ use_calls[u].pc = "done"
                /\ use_calls[u].name = used_keyspace[c]
                /\ use_calls[u].name \in KeyspaceNames \ {<<>>, LongName(MaxKeyspaceNameLen + 1)}

\* "bad-name" rejected while a connection already uses ks, which it keeps
C21_Witness ==
    /\ RejectedWith(use_calls[2], "IllegalCharacter", "-")
    /\ use_calls[1].pc = "done"
    /\ use_calls[1].result.ok
    /\ \A c \in KsConnections : used_keyspace[c] = <<"k", "s">>

UseFailed(call) == call.pc = "done" /\ ~call.result.ok

\* C27: use_keyspace is not atomic across connections: each connection takes the
\* name of the call whose USE it answered Ok last, whatever the other
\* connections did and whether that call went on to fail; a call fails when a
\* connection answered its USE with an error, and what it set before stays set.
C27_NotAtomic ==
    /\ \A c \in KsConnections :
          used_keyspace[c] = (IF last_use_ok[c] = 0 THEN NoKeyspace
                              ELSE use_calls[last_use_ok[c]].name)
    /\ \A u \in UseCalls :
          use_calls[u].pc = "done" =>
              (use_calls[u].result.ok <=>
                  (use_calls[u].answered = KsConnections
                      /\ use_calls[u].succeeded = KsConnections))

\* two calls with different names, both Ok, and the connections disagree
C27_Witness ==
    /\ \A u \in UseCalls : use_calls[u].pc = "done" /\ use_calls[u].result.ok
    /\ use_calls[1].name # use_calls[2].name
    /\ used_keyspace[1] = use_calls[1].name
    /\ used_keyspace[2] = use_calls[2].name

\* a failed call has changed the keyspace of a connection
C27_WitnessFailed ==
    /\ UseFailed(use_calls[1])
    /\ use_calls[2].pc = "idle"
    /\ use_calls[1].name = <<"k", "s">>
    /\ used_keyspace[1] = use_calls[1].name
    /\ used_keyspace[2] = NoKeyspace

\* ---------------------------------------------------- claims on SpecValues
\* the call was made with values that do not serialize or, for execute and
\* execute_iter, with a partition key that cannot be computed
ValueErrorCall ==
    /\ entry_pc # "idle"
    /\ \/ ~entry_call.serialized.ok
       \/ /\ entry_call.entry \in {"execute", "execute_iter"}
          /\ ~entry_call.partition_key.ok

\* nothing planned, no connection acquired, nothing sent
C22_NoNetworkOnValueError ==
    ValueErrorCall =>
        /\ entry_plan = None
        /\ n_acquired = 0
        /\ n_sent = 0
        /\ ~use_sent

\* the call returns BadQuery
C22_BadQueryOnValueError ==
    (ValueErrorCall /\ entry_pc = "done") =>
        /\ ~entry_result.ok
        /\ entry_result.err.kind = "BadQuery"

\* C22: when serializing the bound values fails or, for execute and
\* execute_iter, the partition key cannot be computed, query, query_iter,
\* execute and execute_iter return the BadQuery error without planning,
\* acquiring a connection or sending any request, also for a USE text.
C22_ValueErrorsShortCircuit ==
    /\ C22_NoNetworkOnValueError
    /\ C22_BadQueryOnValueError

\* -------------------------------------------------- claims on SpecTopology
\* C26: run_query and the paging worker read the cluster snapshot and compute
\* the plan once: the nodes a query tries are, in order, the first nodes of a
\* plan of the snapshot it read at its start, whatever snapshots were
\* published since.
C26_PlanFromStartSnapshot ==
    topo_pc \in {"running", "done"} =>
        /\ topo_plan \in PlansOf(held_cluster_data)
        /\ Len(topo_tried) = topo_pos
        /\ topo_tried = SubSeq(topo_plan, 1, topo_pos)

\* the query went through its plan while a snapshot without its second node
\* was published
C26_Witness ==
    /\ topo_pc = "done"
    /\ Len(topo_tried) >= 2
    /\ cluster_data # held_cluster_data
    /\ \E i \in 1..Len(topo_tried) :
          \A j \in 1..Len(cluster_data) : cluster_data[j] # topo_tried[i]

\* the same for the worker of an iterator, refreshed before it started
C26_WitnessWorker ==
    /\ C26_Witness
    /\ topo_kind = "worker"

\* --------------------------------------------------- claims on SpecStreams
\* the stream ids at which request r waits
IdsOf(r) == {id \in DOMAIN waiters : waiters[id] = r}

\* C30: on a connection the allocated stream ids are the keys of the
\* outstanding waiters; a request in flight holds exactly one id, its own; a
\* request answered, cancelled or failed by the close holds none; after the
\* close both sets are empty.
C30_StreamIdDiscipline ==
    /\ allocated_ids = DOMAIN waiters
    /\ \A r \in StreamRequests :
          IF stream_requests[r].state = "in_flight"
          THEN IdsOf(r) = {stream_requests[r].stream_id}
          ELSE IdsOf(r) = {} /\ stream_requests[r].stream_id = NoStreamId
    /\ ~conn_open => allocated_ids = {} /\ DOMAIN waiters = {}

\* one request answered, one cancelled and its id taken again by a third
C30_Witness ==
    /\ \E r \in StreamRequests :
          stream_requests[r].state = "done" /\ stream_requests[r].result.ok
    /\ \E r, q \in StreamRequests :
          /\ stream_requests[r].state = "cancelled"
          /\ stream_requests[q].state = "in_flight"
          /\ on_wire = {stream_requests[q].stream_id}
    /\ Cardinality(allocated_ids) = 1

\* closed with requests in flight: they failed with IOError, nothing allocated
C30_WitnessClosed ==
    /\ ~conn_open
    /\ \A r \in StreamRequests :
          stream_requests[r].state = "done" /\ stream_requests[r].result = Err(IOError)
    /\ allocated_ids = {}

\* ---------------------------------------------------- claims on SpecDecode
\* C24: decoding a RESULT body never aborts: deserialize returns a decoded
\* Result or an error value, which surfaces as ProtocolError, and never panics
\* or fails an assertion.
C24_DecodeNeverAborts ==
    /\ decode_pc \in {"decoded", "surfaced"} => decoded.tag \in {"ok", "err"}
    /\ decode_pc = "surfaced" =>
          \/ surfaced.ok
          \/ surfaced.err.kind = "ProtocolError"

\* a Rows result was decoded
RowsDecoded ==
    /\ decode_pc \in {"decoded", "surfaced"}
    /\ decoded.tag = "ok"
    /\ decoded.value.kind = "Rows"

\* the CQLValue variant a column type decodes to
VariantOf(typ) == typ[1]

\* the cell comes out as the column it went in as: NULL as None, int 3 as
\* Int(3), text "a" as Text("a"), set {3} as Set([Int(3)])
DecodedCell(cell, typ) ==
    IF cell = None THEN None
    ELSE Some(CASE typ[1] = "Int" -> CQLValue("Int", <<3>>)
                [] typ[1] = "Text" -> CQLValue("Text", cell[1])
                [] OTHER -> CQLValue("Set", <<CQLValue("Int", <<3>>)>>))

\* a whole Rows body with metadata, the right column count and typed values
WellFormedRows(body) ==
    /\ body.kind = "Rows"
    /\ body.cut = NoCut
    /\ ~FlagSet(body.flags, 2)
    /\ body.declared = Len(body.types)
    /\ \A r \in 1..Len(body.rows) : body.rows[r] # "one_byte"

\* C25: a Rows result that decodes has exactly rows_count rows and every row
\* exactly metadata.col_count columns, column i being None where the wire had
\* the NULL length and otherwise a value decoded with the type of column spec
\* i; a well-formed body decodes to the rows it was built from.
C25_RowsShape ==
    /\ RowsDecoded =>
          LET rows == decoded.value IN
          /\ Len(rows.rows) = rows.rows_count
          /\ \A r \in 1..Len(rows.rows) :
                /\ Len(rows.rows[r].columns) = rows.metadata.col_count
                /\ \A i \in 1..Len(rows.rows[r].columns) :
                      LET v == rows.rows[r].columns[i] IN
                      v # None =>
                          v[1].variant = VariantOf(rows.metadata.col_specs[i].typ)
    /\ (decode_pc \in {"decoded", "surfaced"} /\ WellFormedRows(sent_body)) =>
          /\ RowsDecoded
          /\ decoded.value.metadata.col_count = Len(sent_body.types)
          /\ decoded.value.rows_count = Len(sent_body.rows)
          /\ \A r \in 1..Len(sent_body.rows), i \in 1..Len(sent_body.types) :
                decoded.value.rows[r].columns[i] =
                    DecodedCell(CellOf(sent_body.rows[r], sent_body.types[i], i),
                                sent_body.types[i])

\* two rows of an int and a text column decoded, the first column of the first
\* row NULL
C25_Witness ==
    /\ RowsDecoded
    /\ WellFormedRows(sent_body)
    /\ sent_body.types = <<<<"Int">>, <<"Text">>>>
    /\ sent_body.rows = <<"odd_nulls", "values">>
    /\ decoded.value.rows[1].columns = <<None, Some(CQLValue("Text", <<97>>))>>
    /\ decoded.value.rows[2].columns[1] = Some(CQLValue("Int", <<3>>))

\* ----------------------------------------------------- claims on SpecToken
\* pk index i names no bound value
PkIndexMissing(i) == tk_indexes[i] >= Len(tk_value_lens)

\* pk index i names a value too long for a compound key
PkValueTooLong(i) ==
    /\ Len(tk_indexes) # 1
    /\ ~PkIndexMissing(i)
    /\ tk_value_lens[tk_indexes[i] + 1] # None
    /\ tk_value_lens[tk_indexes[i] + 1][1] > U16Max

OffendingPkIndexes ==
    {i \in 1..Len(tk_indexes) : PkIndexMissing(i) \/ PkValueTooLong(i)}

FirstOffending == CHOOSE i \in OffendingPkIndexes : \A j \in OffendingPkIndexes : i <= j

\* C38: compute_partition_key returns Ok exactly when every pk index is below
\* the number of bound values and, unless there is exactly one pk index, no
\* non-NULL pk value is longer than 65535 bytes; otherwise it returns
\* NoPkIndexValue or ValueTooLong for the first offending index in pk_indexes
\* order, which calculate_token turns into ProtocolError and
\* BadQuery::ValuesTooLongForKey(len, 65535). NULL values and an empty
\* pk_indexes are not errors.
C38_PartitionKeyErrors ==
    tk_pc = "done" =>
        /\ tk_key.ok <=> OffendingPkIndexes = {}
        /\ tk_key.ok <=> tk_token.ok
        /\ OffendingPkIndexes # {} =>
              IF PkIndexMissing(FirstOffending)
              THEN /\ tk_key = Err(NoPkIndexValue(tk_indexes[FirstOffending],
                                                  Len(tk_value_lens)))
                   /\ tk_token = Err(ProtocolError("No pk indexes - can't calculate token"))
              ELSE /\ tk_key = Err(ValueTooLong(
                                     tk_value_lens[tk_indexes[FirstOffending] + 1][1]))
                   /\ tk_token = Err(ValuesTooLongForKey(
                                     tk_value_lens[tk_indexes[FirstOffending] + 1][1], 65535))

\* the first pk index names no value, the second a value that is too long
C38_Witness ==
    /\ tk_pc = "done"
    /\ tk_indexes = <<2, 0>>
    /\ tk_value_lens = <<Some(U16Max + 1), None>>
    /\ tk_key = Err(NoPkIndexValue(2, 2))

\* the first pk index names a value that is too long, the second no value
C38_WitnessTooLong ==
    /\ tk_pc = "done"
    /\ tk_indexes = <<0, 2>>
    /\ tk_value_lens = <<Some(U16Max + 1), Some(4)>>
    /\ tk_token.err.kind = "BadQuery"

\* a single pk index on a value of 65536 bytes, and two on values of 65535
\* bytes and NULL, are no errors
C38_WitnessNoError ==
    /\ tk_pc = "done"
    /\ tk_key.ok
    /\ \/ tk_indexes = <<0>> /\ tk_value_lens = <<Some(U16Max + 1)>>
       \/ tk_indexes = <<0, 1>> /\ tk_value_lens = <<Some(U16Max), None>>

====
